---------------------------- MODULE Spec2Model ----------------------------
(* StockSentinel: the news collector (src/src/data_collector.py), the        *)
(* sentiment aggregator (src/src/sentiment_analyzer.py, src/src/utils.py)    *)
(* and the scoring engine (src/src/stock_scorer.py) as state machines.       *)
(*                                                                           *)
(* Strings that the code compares or lower-cases are sequences of            *)
(* characters: a title is a sequence of one-letter strings, a published_at   *)
(* is a sequence of character codes compared as Python compares str.         *)
(* Real numbers are integers in thousandths (0.3 is 300) or exact rationals  *)
(* [num, den] with den > 0; IEEE rounding is not modelled.                   *)
EXTENDS Integers, Sequences, FiniteSets, TLC

VARIABLES
    \* ---- NewsCollector.collect_all ----
    cpc,              \* position in collect_all
    keys,             \* the API keys read by __init__: is each one set
    net,              \* what the network did for each fetcher in this call
    max_articles,     \* the max_articles argument
    all_articles,     \* the local all_articles
    unique_articles,  \* the local unique_articles (after the sort, sorted)
    result,           \* the returned list
    \* ---- SentimentAnalyzer ----
    apc,              \* "collecting" while articles are analyzed, then "aggregated"
    analyzed_articles,\* the list handed to get_aggregated_sentiment
    aggregated,       \* the record get_aggregated_sentiment returned
    \* ---- StockScorer ----
    spc,              \* "articles" while the argument list is built, then "scored"
    weights,          \* StockScorer.weights
    score_articles,   \* the articles argument of calculate_score, as runs
    score_input,      \* the aggregated_sentiment argument of calculate_score
    scoring,          \* the record calculate_score returned
    \* ---- one analysis request (src/src/cli.py main, src/api/main.py) ----
    rpc,              \* position in the request
    request,          \* the front end and the ticker argument
    ticker,           \* the local ticker
    calls,            \* the calls made to the collaborators, in order
    outcome,          \* how the request ended: exit code or HTTP status
    report            \* the record generate_report returned

collectVars == <<cpc, keys, net, max_articles, all_articles, unique_articles, result>>
aggVars == <<apc, analyzed_articles, aggregated>>
scoreVars == <<spc, weights, score_articles, score_input, scoring>>
requestVars == <<rpc, request, ticker, calls, outcome, report>>
vars == <<collectVars, aggVars, scoreVars, requestVars>>

-----------------------------------------------------------------------------
(* Bounds *)

\* the fetchers return at most this many articles in total in one call
MaxTotal == 3
\* max_articles ranges over 1..MaxCap (the API accepts 1..100)
MaxCap == 3

-----------------------------------------------------------------------------
(* Generic helpers *)

RECURSIVE SeqsUpTo(_, _)
\* all sequences over S of length at most n
SeqsUpTo(S, n) ==
    IF n = 0 THEN {<<>>}
    ELSE LET shorter == SeqsUpTo(S, n - 1)
         IN  shorter \cup {Append(s, x) : s \in {t \in shorter : Len(t) = n - 1}, x \in S}

Min(a, b) == IF a <= b THEN a ELSE b
Max(a, b) == IF a >= b THEN a ELSE b

Range(s) == {s[i] : i \in DOMAIN s}

\* s[:n] for n >= 0
Take(s, n) == SubSeq(s, 1, Min(n, Len(s)))

-----------------------------------------------------------------------------
(* Strings *)

\* str.lower() on one character
LowerChar(c) == IF c = "A" THEN "a" ELSE IF c = "B" THEN "b" ELSE c

\* str.lower()
Lower(t) == [i \in DOMAIN t |-> LowerChar(t[i])]

RECURSIVE StrLess(_, _)
\* Python's a < b on str: lexicographic by code point, a proper prefix is smaller
StrLess(a, b) ==
    IF b = <<>> THEN FALSE
    ELSE IF a = <<>> THEN TRUE
    ELSE IF Head(a) /= Head(b) THEN Head(a) < Head(b)
    ELSE StrLess(Tail(a), Tail(b))

\* the titles the providers send: "", "A", "a", "b", "c"
Titles == {<<>>, <<"A">>, <<"a">>, <<"b">>, <<"c">>}

\* the publishedAt strings NewsAPI sends: "" and "2" (as character codes)
Dates == {<<>>, <<2>>}

\* the strings datetime.fromtimestamp(..).isoformat() gives Finnhub's and
\* Yahoo's items, never empty: "2" and "12"
IsoDates == {<<2>>, <<1, 2>>}

\* Python's None where the code expects a str: a JSON null as a title and as
\* a publishedAt
NoneTitle == <<"None">>
NoneDate == <<-1>>

\* NewsAPI items whose title or publishedAt may be null
NullableItems == [title : {<<"a">>, NoneTitle}, published_at : {<<2>>, NoneDate}]

\* one item of a provider's response, as far as collect_all reads it
RawItems(src) ==
    [title : Titles, published_at : IF src = "newsapi" THEN Dates ELSE IsoDates]


-----------------------------------------------------------------------------
(* NewsCollector: the three fetchers *)

\* what one fetcher call met: no request made, a requests RequestException
\* (yfinance: any exception), or a response with its items
NotCalled == [status |-> "not called", items |-> <<>>]
NetError == [status |-> "error", items |-> <<>>]
Response(items) == [status |-> "ok", items |-> items]

\* what a fetcher hands back to collect_all: a list, or an exception
Returned(articles) == [raised |-> FALSE, articles |-> articles]
Raised == [raised |-> TRUE, articles |-> <<>>]

\* the article dict each fetcher builds from one response item
Article(src, item) ==
    [source |-> src, title |-> item.title, published_at |-> item.published_at]

Normalize(src, items) == [i \in DOMAIN items |-> Article(src, items[i])]

collect_news_api_propagates(key, n) ==
    IF ~key THEN Returned(<<>>)
    ELSE IF n.status = "error" THEN Raised
    ELSE Returned(Normalize("newsapi", n.items))

collect_news_api(key, n) ==
    IF ~key THEN Returned(<<>>)
    ELSE IF n.status = "error" THEN Returned(<<>>)
    ELSE Returned(Normalize("newsapi", n.items))

collect_finnhub(key, n) ==
    IF ~key THEN Returned(<<>>)
    ELSE IF n.status = "error" THEN Returned(<<>>)
    ELSE Returned(Normalize("finnhub", n.items))

collect_yfinance_news(n) ==
    IF n.status = "error" THEN Returned(<<>>)
    ELSE Returned(Normalize("yahoo_finance", n.items))

\* what the network can do for one fetcher call that has room for `room` items
NetOutcomes(src, called, room) ==
    IF ~called THEN {NotCalled}
    ELSE {NetError} \cup {Response(items) : items \in SeqsUpTo(RawItems(src), room)}

\* what the network can do for a NewsAPI call whose items may hold nulls
NullableOutcomes(called, room) ==
    IF ~called THEN {NotCalled}
    ELSE {Response(items) : items \in SeqsUpTo(NullableItems, room)}

-----------------------------------------------------------------------------
(* NewsCollector.collect_all: deduplicate, sort, truncate *)

\* article.get("title", "").lower() raises AttributeError when the title is
\* None: the key is present, so the default "" is not used
LowerRaises(articles) == \E i \in DOMAIN articles : articles[i].title = NoneTitle

\* the sort raises TypeError when it compares a None key: with two or more
\* articles every key is compared at least once
SortRaises(articles) ==
    Len(articles) >= 2 /\ \E i \in DOMAIN articles : articles[i].published_at = NoneDate

RECURSIVE DedupLoop(_, _, _)
\* the loop over all_articles: seen is seen_titles, acc is unique_articles
DedupLoop(articles, seen, acc) ==
    IF articles = <<>> THEN acc
    ELSE LET article == Head(articles)
             title == Lower(article.title)
         IN  IF title /= <<>> /\ title \notin seen
             THEN DedupLoop(Tail(articles), seen \cup {title}, Append(acc, article))
             ELSE DedupLoop(Tail(articles), seen, acc)

RECURSIVE DedupLoopCaseSensitive(_, _, _)
DedupLoopCaseSensitive(articles, seen, acc) ==
    IF articles = <<>> THEN acc
    ELSE LET article == Head(articles)
             title == article.title
         IN  IF title /= <<>> /\ title \notin seen
             THEN DedupLoopCaseSensitive(Tail(articles), seen \cup {title},
                                         Append(acc, article))
             ELSE DedupLoopCaseSensitive(Tail(articles), seen, acc)

RECURSIVE DedupLoopKeepEmpty(_, _, _)
DedupLoopKeepEmpty(articles, seen, acc) ==
    IF articles = <<>> THEN acc
    ELSE LET article == Head(articles)
             title == Lower(article.title)
         IN  IF title = <<>> \/ title \notin seen
             THEN DedupLoopKeepEmpty(Tail(articles), seen \cup {title},
                                     Append(acc, article))
             ELSE DedupLoopKeepEmpty(Tail(articles), seen, acc)

DeduplicateCaseSensitive(articles) == DedupLoopCaseSensitive(articles, {}, <<>>)

DeduplicateKeepEmpty(articles) == DedupLoopKeepEmpty(articles, {}, <<>>)

\* "Remove duplicates based on title"
Deduplicate(articles) == DedupLoop(articles, {}, <<>>)

RECURSIVE InsertNewestFirst(_, _)
\* a goes behind every element whose key is >= its own (the sort is stable)
InsertNewestFirst(sorted, a) ==
    IF sorted = <<>> THEN <<a>>
    ELSE IF StrLess(Head(sorted).published_at, a.published_at)
         THEN <<a>> \o sorted
         ELSE <<Head(sorted)>> \o InsertNewestFirst(Tail(sorted), a)

RECURSIVE InsertOldestFirst(_, _)
InsertOldestFirst(sorted, a) ==
    IF sorted = <<>> THEN <<a>>
    ELSE IF StrLess(a.published_at, Head(sorted).published_at)
         THEN <<a>> \o sorted
         ELSE <<Head(sorted)>> \o InsertOldestFirst(Tail(sorted), a)

RECURSIVE SortOldestFirstFrom(_, _)
SortOldestFirstFrom(articles, acc) ==
    IF articles = <<>> THEN acc
    ELSE SortOldestFirstFrom(Tail(articles), InsertOldestFirst(acc, Head(articles)))

RECURSIVE SortNewestFirstFrom(_, _)
SortNewestFirstFrom(articles, acc) ==
    IF articles = <<>> THEN acc
    ELSE SortNewestFirstFrom(Tail(articles), InsertNewestFirst(acc, Head(articles)))

SortOldestFirst(articles) == SortOldestFirstFrom(articles, <<>>)

\* unique_articles.sort(key=published_at, reverse=True)
SortNewestFirst(articles) == SortNewestFirstFrom(articles, <<>>)

LimitOffByOne(articles, n) == Take(articles, n - 1)

\* unique_articles[:max_articles]
Limit(articles, n) == Take(articles, n)

-----------------------------------------------------------------------------
(* NewsCollector: the state machine of one collect_all call *)

InitCollect ==
    /\ cpc = "newsapi"
    /\ keys \in [{"newsapi", "finnhub"} -> BOOLEAN]
    /\ net = [s \in {"newsapi", "finnhub", "yahoo_finance"} |-> NotCalled]
    /\ max_articles \in 1..MaxCap
    /\ all_articles = <<>>
    /\ unique_articles = <<>>
    /\ result = <<>>

\* one fetcher returned: extend all_articles, or let the exception escape
Extend(src, n, ret, next) ==
    /\ net' = [net EXCEPT ![src] = n]
    /\ IF ret.raised
       THEN cpc' = "raised" /\ UNCHANGED all_articles
       ELSE cpc' = next /\ all_articles' = all_articles \o ret.articles
    /\ UNCHANGED <<keys, max_articles, unique_articles, result, aggVars, scoreVars, requestVars>>

FetchNewsApi ==
    /\ cpc = "newsapi"
    /\ \E n \in NetOutcomes("newsapi", keys.newsapi, MaxTotal - Len(all_articles)) :
          Extend("newsapi", n, collect_news_api(keys.newsapi, n), "finnhub")

FetchFinnhub ==
    /\ cpc = "finnhub"
    /\ \E n \in NetOutcomes("finnhub", keys.finnhub, MaxTotal - Len(all_articles)) :
          Extend("finnhub", n, collect_finnhub(keys.finnhub, n), "yahoo_finance")

FetchYfinanceNews ==
    /\ cpc = "yahoo_finance"
    /\ \E n \in NetOutcomes("yahoo_finance", TRUE, MaxTotal - Len(all_articles)) :
          Extend("yahoo_finance", n, collect_yfinance_news(n), "dedup")

\* the rest of collect_all: deduplicate, sort in place, slice, return
FinishCollect ==
    /\ cpc = "dedup"
    /\ IF LowerRaises(all_articles) \/ SortRaises(Deduplicate(all_articles))
       THEN cpc' = "raised" /\ UNCHANGED <<unique_articles, result>>
       ELSE /\ unique_articles' = SortNewestFirst(Deduplicate(all_articles))
            /\ result' = Limit(unique_articles', max_articles)
            /\ cpc' = "done"
    /\ UNCHANGED <<keys, net, max_articles, all_articles, aggVars, scoreVars, requestVars>>

\* NewsAPI answers with items whose title or publishedAt may be null
FetchNewsApiNullable ==
    /\ cpc = "newsapi"
    /\ \E n \in NullableOutcomes(keys.newsapi, MaxTotal - Len(all_articles)) :
          Extend("newsapi", n, collect_news_api(keys.newsapi, n), "finnhub")

\* one collect_all call on responses that may hold nulls
NextNullable ==
    \/ FetchNewsApiNullable
    \/ FetchFinnhub
    \/ FetchYfinanceNews
    \/ FinishCollect

NextCollect ==
    \/ FetchNewsApi
    \/ FetchFinnhub
    \/ FetchYfinanceNews
    \/ FinishCollect

-----------------------------------------------------------------------------
(* Numbers *)

Abs(x) == IF x < 0 THEN -x ELSE x

RECURSIVE GCD(_, _)
GCD(a, b) == IF b = 0 THEN a ELSE GCD(b, a % b)

Reduced(n, d, g) == [num |-> n \div g, den |-> d \div g]

\* the exact rational n/d, d > 0, in lowest terms
Rat(n, d) == Reduced(n, d, GCD(Abs(n), d))
RatLess(a, b) == a.num * b.den < b.num * a.den
RatLeq(a, b) == a.num * b.den <= b.num * a.den
RatEq(a, b) == a.num * b.den = b.num * a.den
RatNeg(a) == [num |-> -a.num, den |-> a.den]
\* for a and b in lowest terms and g the GCD of their denominators, the sum
\* over the least common denominator shares with it only divisors of g
SumOver(n, d, g) == Reduced(n, d, GCD(Abs(n), g))
AddOver(a, b, g) ==
    SumOver(a.num * (b.den \div g) + b.num * (a.den \div g), (a.den \div g) * b.den, g)
RatAdd(a, b) == AddOver(a, b, GCD(a.den, b.den))
\* for a and b in lowest terms, cancelling crosswise leaves lowest terms
MulOver(a, b, g, h) ==
    [num |-> (a.num \div g) * (b.num \div h), den |-> (a.den \div h) * (b.den \div g)]
RatMul(a, b) == MulOver(a, b, GCD(Abs(a.num), b.den), GCD(Abs(b.num), a.den))
RatMin(a, b) == IF RatLeq(a, b) THEN a ELSE b
RatMax(a, b) == IF RatLeq(b, a) THEN a ELSE b

\* the float nearest to x thousandths: 300 is 0.3
Milli(x) == Rat(x, 1000)

\* Python's round(x, ndigits) with scale = 10^ndigits: the nearest multiple of
\* 1/scale, a tie going to the even one
Round(x, scale) ==
    LET whole == x.num \div x.den
        n == (x.num - whole * x.den) * scale
        q == n \div x.den
        r == n - q * x.den
        up == 2 * r > x.den \/ (2 * r = x.den /\ (whole * scale + q) % 2 = 1)
    IN  Rat(whole * scale + q + (IF up THEN 1 ELSE 0), scale)

RECURSIVE SqrtBetween(_, _, _)
\* the largest r in lo..hi with r*r <= q, given lo*lo <= q
SqrtBetween(q, lo, hi) ==
    IF lo >= hi THEN lo
    ELSE LET mid == (lo + hi + 1) \div 2
         IN  IF mid * mid <= q THEN SqrtBetween(q, mid, hi)
             ELSE SqrtBetween(q, lo, mid - 1)

\* the integer part of the square root of q >= 0
ISqrt(q) == SqrtBetween(q, 0, Min(q, 46340))

RECURSIVE SumSeq(_)
SumSeq(s) == IF s = <<>> THEN 0 ELSE Head(s) + SumSeq(Tail(s))

RECURSIVE InsertAscending(_, _)
InsertAscending(sorted, x) ==
    IF sorted = <<>> THEN <<x>>
    ELSE IF x < Head(sorted) THEN <<x>> \o sorted
    ELSE <<Head(sorted)>> \o InsertAscending(Tail(sorted), x)

RECURSIVE SortAscending(_)
SortAscending(s) ==
    IF s = <<>> THEN <<>> ELSE InsertAscending(SortAscending(Tail(s)), Head(s))

\* dict.get(key, default)
Get(dict, key, default) == IF key \in DOMAIN dict THEN dict[key] ELSE default

-----------------------------------------------------------------------------
(* Sentiment labels: SentimentAnalyzer._get_label and utils.get_sentiment_label *)

\* the default threshold of both functions, 0.3
DefaultThreshold == 300

get_label_inclusive(score, threshold) ==
    IF RatLeq(threshold, score) THEN "bullish"
    ELSE IF RatLeq(score, RatNeg(threshold)) THEN "bearish"
    ELSE "neutral"

\* SentimentAnalyzer._get_label
get_label(score, threshold) ==
    IF RatLess(threshold, score) THEN "bullish"
    ELSE IF RatLess(score, RatNeg(threshold)) THEN "bearish"
    ELSE "neutral"

\* utils.get_sentiment_label
get_sentiment_label(score, threshold) ==
    IF RatLess(threshold, score) THEN "bullish"
    ELSE IF RatLess(score, RatNeg(threshold)) THEN "bearish"
    ELSE "neutral"

-----------------------------------------------------------------------------
(* SentimentAnalyzer: analyze_article and get_aggregated_sentiment *)

\* utils.calculate_sentiment_score
calculate_sentiment_score(positive, negative, neutral) == positive - negative

\* the probabilities, in thousandths, that the classifier gives to positive
\* and to negative; neutral takes the rest of 1000
Probabilities == {0, 300, 301, 1000}

\* what analyze_with_finbert returns for one text
ClassifierOutputs ==
    {[positive |-> p, negative |-> n, neutral |-> 1000 - p - n,
      score |-> calculate_sentiment_score(p, n, 1000 - p - n)] :
        <<p, n>> \in {pn \in Probabilities \X Probabilities : pn[1] + pn[2] <= 1000}}

\* analyze_article: the article with its sentiment and its label attached
analyze_article(sentiment) ==
    [sentiment |-> sentiment,
     sentiment_label |-> get_label(Milli(sentiment.score), Milli(DefaultThreshold))]

\* articles that did not come from analyze_article: no sentiment and no label,
\* a label that is none of the three, a score without a label, a label
\* without a score
ForeignArticles ==
    { [url |-> "u"],
      [sentiment |-> [score |-> 1000], sentiment_label |-> "positive"],
      [sentiment |-> [score |-> -1000]],
      [sentiment |-> <<>>, sentiment_label |-> "bearish"] }

\* article.get("sentiment", {}).get("score", 0.0)
ScoreOf(article) == Get(Get(article, "sentiment", <<>>), "score", 0)

\* article.get("sentiment_label", "neutral")
LabelOf(article) == Get(article, "sentiment_label", "neutral")

Scores(articles) == [i \in DOMAIN articles |-> ScoreOf(articles[i])]

CountLabel(articles, label) ==
    Cardinality({i \in DOMAIN articles : LabelOf(articles[i]) = label})

CountNeutralExact(articles) == CountLabel(articles, "neutral")

\* the else branch of the label count
CountNeutral(articles) ==
    Cardinality({i \in DOMAIN articles : LabelOf(articles[i]) \notin {"bullish", "bearish"}})

\* np.mean
Mean(scores) == Rat(SumSeq(scores), 1000 * Len(scores))

\* np.median: the middle of the sorted scores, or the mean of the two middle
Median(scores) ==
    LET sorted == SortAscending(scores)
        n == Len(scores)
    IN  IF n % 2 = 1 THEN Milli(sorted[(n + 1) \div 2])
        ELSE Rat(sorted[n \div 2] + sorted[n \div 2 + 1], 2000)

\* n*n times the population variance of the scores in thousandths:
\* n*sum(x^2) - sum(x)^2
ScaledVariance(scores) ==
    Len(scores) * SumSeq([i \in DOMAIN scores |-> scores[i] * scores[i]])
        - SumSeq(scores) * SumSeq(scores)

\* the sample standard deviation, over n - 1
StdSample(scores) ==
    Rat(ISqrt((ScaledVariance(scores) * Len(scores)) \div (Len(scores) - 1)),
        1000 * Len(scores))

\* np.std, the population standard deviation sqrt(variance); the square root
\* is cut to an integer, so the value is exact to 1/n of a thousandth
Std(scores) == Rat(ISqrt(ScaledVariance(scores)), 1000 * Len(scores))

\* np.min, np.max
MinOf(scores) == CHOOSE x \in Range(scores) : \A y \in Range(scores) : x <= y
MaxOfFirst(scores) == scores[1]
MaxOf(scores) == CHOOSE x \in Range(scores) : \A y \in Range(scores) : x >= y

\* the record returned for an empty list (it has no std_score, min_score,
\* max_score)
EmptyAggregate ==
    [mean_score |-> Milli(0), median_score |-> Milli(0),
     positive_ratio |-> Milli(0), negative_ratio |-> Milli(0),
     neutral_ratio |-> Milli(0), article_count |-> 0, overall_label |-> "neutral"]

get_aggregated_sentiment(articles) ==
    IF articles = <<>> THEN EmptyAggregate
    ELSE LET scores == Scores(articles)
             total == Len(articles)
         IN  [mean_score |-> Mean(scores),
              median_score |-> Median(scores),
              std_score |-> Std(scores),
              min_score |-> Milli(MinOf(scores)),
              max_score |-> Milli(MaxOf(scores)),
              positive_ratio |-> Rat(CountLabel(articles, "bullish"), total),
              negative_ratio |-> Rat(CountLabel(articles, "bearish"), total),
              neutral_ratio |-> Rat(CountNeutral(articles), total),
              article_count |-> total,
              overall_label |-> get_label(Mean(scores), Milli(DefaultThreshold))]

-----------------------------------------------------------------------------
(* SentimentAnalyzer: articles are analyzed one by one, then aggregated *)

\* at most this many articles are aggregated
MaxAnalyzed == 3

InitAggregate ==
    /\ apc = "analyzing"
    /\ analyzed_articles = <<>>
    /\ aggregated = <<>>

\* analyze_articles appends one more analyzed article
AnalyzeArticle ==
    /\ apc = "analyzing"
    /\ Len(analyzed_articles) < MaxAnalyzed
    /\ \E sentiment \in ClassifierOutputs :
          analyzed_articles' = Append(analyzed_articles, analyze_article(sentiment))
    /\ UNCHANGED <<apc, aggregated, collectVars, scoreVars, requestVars>>

\* the caller's list holds an article that analyze_article did not make
ForeignArticle ==
    /\ apc = "analyzing"
    /\ Len(analyzed_articles) < MaxAnalyzed
    /\ \E article \in ForeignArticles :
          analyzed_articles' = Append(analyzed_articles, article)
    /\ UNCHANGED <<apc, aggregated, collectVars, scoreVars, requestVars>>

Aggregate ==
    /\ apc = "analyzing"
    /\ aggregated' = get_aggregated_sentiment(analyzed_articles)
    /\ apc' = "aggregated"
    /\ UNCHANGED <<analyzed_articles, collectVars, scoreVars, requestVars>>

NextAggregate ==
    \/ AnalyzeArticle
    \/ ForeignArticle
    \/ Aggregate

-----------------------------------------------------------------------------
(* StockScorer: the components of the score *)

\* StockScorer.__init__: self.weights
InitialWeights ==
    [sentiment_score |-> Rat(70, 100), sentiment_consistency |-> Rat(15, 100),
     news_volume |-> Rat(10, 100), recency |-> Rat(5, 100)]

\* StockScorer.__init__: self.min_articles_for_consistency
min_articles_for_consistency == 10

\* max(lo, min(hi, x))
Clamp(x, lo, hi) == RatMax(lo, RatMin(hi, x))

\* The articles argument is held as runs [count, published_at] of equal
\* articles: calculate_score reads only len(articles) and each published_at.
\* A published_at is unparsable, or a naive ISO time, or an ISO time with a
\* 'Z' or an offset (aware), `hours` hours before now.
RECURSIVE ArticleCount(_)
\* len(articles)
ArticleCount(runs) ==
    IF runs = <<>> THEN 0 ELSE Head(runs).count + ArticleCount(Tail(runs))

\* the magnitude of the mean instead of the mean
sentiment_component_magnitude(agg) ==
    IF RatLess(Get(agg, "mean_score", Rat(0, 1)), Rat(0, 1))
    THEN RatNeg(Get(agg, "mean_score", Rat(0, 1)))
    ELSE Get(agg, "mean_score", Rat(0, 1))

_calculate_sentiment_component(agg) == Get(agg, "mean_score", Rat(0, 1))

\* the consistency without the test of the article count
consistency_component_unguarded(agg, article_count) ==
    Clamp(RatAdd(Rat(1, 1), RatNeg(RatMul(Get(agg, "std_score", Rat(1, 1)), Rat(2, 1)))),
          Rat(-1, 1), Rat(1, 1))

consistency_component_inclusive(agg, article_count) ==
    IF article_count <= min_articles_for_consistency THEN Rat(0, 1)
    ELSE LET std == Get(agg, "std_score", Rat(1, 1))
             consistency == RatAdd(Rat(1, 1), RatNeg(RatMul(std, Rat(2, 1))))
         IN  Clamp(consistency, Rat(-1, 1), Rat(1, 1))

_calculate_consistency_component(agg, article_count) ==
    IF article_count < min_articles_for_consistency THEN Rat(0, 1)
    ELSE LET std == Get(agg, "std_score", Rat(1, 1))
             consistency == RatAdd(Rat(1, 1), RatNeg(RatMul(std, Rat(2, 1))))
         IN  Clamp(consistency, Rat(-1, 1), Rat(1, 1))

volume_component_inclusive(article_count) ==
    IF article_count = 0 THEN Rat(-1, 1)
    ELSE IF article_count <= 5 THEN Rat(-1, 2)
    ELSE IF article_count <= 10 THEN Rat(-1, 5)
    ELSE Rat(0, 1)

_calculate_volume_component(article_count) ==
    IF article_count = 0 THEN Rat(-1, 1)
    ELSE IF article_count < 5 THEN Rat(-1, 2)
    ELSE IF article_count < 10 THEN Rat(-1, 5)
    ELSE Rat(0, 1)

\* the sub-score of one article: now - pub_date raises for an aware pub_date
\* (now is naive), fromisoformat raises for an unparsable one, and the bare
\* except appends 0.0
RecencyOf(published_at) ==
    IF published_at.kind /= "naive" THEN Rat(0, 1)
    ELSE IF published_at.hours < 24 THEN Rat(1, 2)
    ELSE IF published_at.hours < 48 THEN Rat(1, 5)
    ELSE IF published_at.hours < 96 THEN Rat(0, 1)
    ELSE Rat(-1, 5)

RECURSIVE RecencySum(_)
\* sum(recency_scores)
RecencySum(runs) ==
    IF runs = <<>> THEN Rat(0, 1)
    ELSE RatAdd(RatMul(Rat(Head(runs).count, 1), RecencyOf(Head(runs).published_at)),
                RecencySum(Tail(runs)))

\* the sum of the sub-scores, not divided by their number
recency_component_sum(runs) ==
    IF ArticleCount(runs) = 0 THEN Rat(0, 1) ELSE RecencySum(runs)

_calculate_recency_component(runs) ==
    IF ArticleCount(runs) = 0 THEN Rat(0, 1)
    ELSE RatMul(RecencySum(runs), Rat(1, ArticleCount(runs)))

\* the tiers with open lower bounds
generate_recommendation_strict(score) ==
    IF RatLess(Rat(70, 1), score) THEN "STRONG BUY"
    ELSE IF RatLess(Rat(60, 1), score) THEN "BUY"
    ELSE IF RatLess(Rat(55, 1), score) THEN "WEAK BUY"
    ELSE IF RatLess(Rat(45, 1), score) THEN "HOLD"
    ELSE IF RatLess(Rat(40, 1), score) THEN "WEAK SELL"
    ELSE IF RatLess(Rat(30, 1), score) THEN "SELL"
    ELSE "STRONG SELL"

_generate_recommendation(score) ==
    IF RatLeq(Rat(70, 1), score) THEN "STRONG BUY"
    ELSE IF RatLeq(Rat(60, 1), score) THEN "BUY"
    ELSE IF RatLeq(Rat(55, 1), score) THEN "WEAK BUY"
    ELSE IF RatLeq(Rat(45, 1), score) THEN "HOLD"
    ELSE IF RatLeq(Rat(40, 1), score) THEN "WEAK SELL"
    ELSE IF RatLeq(Rat(30, 1), score) THEN "SELL"
    ELSE "STRONG SELL"

\* every matching tier of a factor adds its points
calculate_confidence_cumulative(agg, article_count) ==
    LET std == Get(agg, "std_score", Rat(1, 1))
        from_count == (IF article_count >= 20 THEN 2 ELSE 0)
                        + (IF article_count >= 10 THEN 1 ELSE 0)
        from_std == (IF RatLess(std, Rat(3, 10)) THEN 2 ELSE 0)
                      + (IF RatLess(std, Rat(5, 10)) THEN 1 ELSE 0)
        confidence_score == from_count + from_std
    IN  IF confidence_score >= 3 THEN "high"
        ELSE IF confidence_score >= 2 THEN "medium"
        ELSE "low"

_calculate_confidence(agg, article_count) ==
    LET std == Get(agg, "std_score", Rat(1, 1))
        from_count == IF article_count >= 20 THEN 2
                      ELSE IF article_count >= 10 THEN 1 ELSE 0
        from_std == IF RatLess(std, Rat(3, 10)) THEN 2
                    ELSE IF RatLess(std, Rat(5, 10)) THEN 1 ELSE 0
        confidence_score == from_count + from_std
    IN  IF confidence_score >= 3 THEN "high"
        ELSE IF confidence_score >= 2 THEN "medium"
        ELSE "low"

\* calculate_score without the amplification by 1.5
calculate_score_unamplified(w, aggregated_sentiment, runs) ==
    LET article_count == ArticleCount(runs)
        sentiment_component == _calculate_sentiment_component(aggregated_sentiment)
        consistency_component ==
            _calculate_consistency_component(aggregated_sentiment, article_count)
        volume_component == _calculate_volume_component(article_count)
        recency_component == _calculate_recency_component(runs)
        total_score ==
            RatAdd(RatAdd(RatMul(sentiment_component, w.sentiment_score),
                          RatMul(consistency_component, w.sentiment_consistency)),
                   RatAdd(RatMul(volume_component, w.news_volume),
                          RatMul(recency_component, w.recency)))
        amplified_score == total_score
        normalized_score ==
            Clamp(RatMul(RatAdd(amplified_score, Rat(1, 1)), Rat(50, 1)),
                  Rat(0, 1), Rat(100, 1))
    IN  [overall_score |-> Round(normalized_score, 100),
         components |->
            [sentiment |-> Round(sentiment_component, 1000),
             consistency |-> Round(consistency_component, 1000),
             volume |-> Round(volume_component, 1000),
             recency |-> Round(recency_component, 1000)],
         weights |-> w,
         recommendation |-> _generate_recommendation(normalized_score),
         confidence |-> _calculate_confidence(aggregated_sentiment, article_count)]

calculate_score(w, aggregated_sentiment, runs) ==
    LET article_count == ArticleCount(runs)
        sentiment_component == _calculate_sentiment_component(aggregated_sentiment)
        consistency_component ==
            _calculate_consistency_component(aggregated_sentiment, article_count)
        volume_component == _calculate_volume_component(article_count)
        recency_component == _calculate_recency_component(runs)
        total_score ==
            RatAdd(RatAdd(RatMul(sentiment_component, w.sentiment_score),
                          RatMul(consistency_component, w.sentiment_consistency)),
                   RatAdd(RatMul(volume_component, w.news_volume),
                          RatMul(recency_component, w.recency)))
        amplified_score == RatMul(total_score, Rat(15, 10))
        normalized_score ==
            Clamp(RatMul(RatAdd(amplified_score, Rat(1, 1)), Rat(50, 1)),
                  Rat(0, 1), Rat(100, 1))
    IN  [overall_score |-> Round(normalized_score, 100),
         components |->
            [sentiment |-> Round(sentiment_component, 1000),
             consistency |-> Round(consistency_component, 1000),
             volume |-> Round(volume_component, 1000),
             recency |-> Round(recency_component, 1000)],
         weights |-> w,
         recommendation |-> _generate_recommendation(normalized_score),
         confidence |-> _calculate_confidence(aggregated_sentiment, article_count)]

-----------------------------------------------------------------------------
(* StockScorer: one calculate_score call on some aggregate and some articles *)

\* the articles argument has at most this many runs
MaxRuns == 2

\* the lengths of a run: one or two runs add up to counts on both sides of
\* the steps at 5, 10 and 20 (4, 5, 9, 10, 11, 15, 20), and to a thousand
RunLengths == {1, 4, 5, 10, 1000}

\* the published_at values of the scored articles
PublishedAts ==
    {[kind |-> "naive", hours |-> h] : h \in {1, 24, 48, 96}}
        \cup {[kind |-> "aware", hours |-> 1], [kind |-> "unparsable", hours |-> 0]}

Runs == [count : RunLengths, published_at : PublishedAts]

\* the published_at values from the newest to the oldest, as the collector
\* sorts the articles; the unparsable one is the empty string and comes last
NewestFirst ==
    <<[kind |-> "naive", hours |-> 1], [kind |-> "aware", hours |-> 1],
      [kind |-> "naive", hours |-> 24], [kind |-> "naive", hours |-> 48],
      [kind |-> "naive", hours |-> 96], [kind |-> "unparsable", hours |-> 0]>>

\* the place of a published_at in that order
Place(published_at) == CHOOSE i \in DOMAIN NewestFirst : NewestFirst[i] = published_at

\* the mean_score and std_score of the aggregated_sentiment arguments, in
\* thousandths: a mean in [-1,1], a std >= 0 on both sides of 0.3, of 0.5 and
\* of 1
MeanScores == {-1000, -300, 0, 500, 1000}
StdScores == {0, 299, 300, 500, 1000, 1500}

\* an aggregate of very similar, mildly positive articles (mean 0.159, std
\* 0.010), whose score comes to lie just below a tier bound
NearTierBound == [mean_score |-> Milli(159), std_score |-> Milli(10)]

\* the aggregated_sentiment arguments: a mean and a std, or the record of an
\* empty list, which has no std_score
AggregatedInputs ==
    {[mean_score |-> Milli(m), std_score |-> Milli(sd)] :
        m \in MeanScores, sd \in StdScores}
        \cup {EmptyAggregate, NearTierBound}

InitScore ==
    /\ spc = "articles"
    /\ weights = InitialWeights
    /\ score_articles = <<>>
    /\ score_input = <<>>
    /\ scoring = <<>>

\* the caller's list grows by a run of equal articles, older than the ones
\* it holds
MoreArticles ==
    /\ spc = "articles"
    /\ Len(score_articles) < MaxRuns
    /\ \E run \in Runs :
          /\ score_articles /= <<>> =>
                Place(score_articles[Len(score_articles)].published_at)
                    < Place(run.published_at)
          /\ score_articles' = Append(score_articles, run)
    /\ UNCHANGED <<spc, weights, score_input, scoring, collectVars, aggVars, requestVars>>

CalculateScore ==
    /\ spc = "articles"
    /\ \E aggregated_sentiment \in AggregatedInputs :
          /\ score_input' = aggregated_sentiment
          /\ scoring' = calculate_score(weights, aggregated_sentiment, score_articles)
    /\ spc' = "scored"
    /\ UNCHANGED <<weights, score_articles, collectVars, aggVars, requestVars>>

\* what the classifier returns for a text it scores `score` thousandths
ClassifiedAs(score) ==
    [positive |-> score + 100, negative |-> 100, neutral |-> 800 - score,
     score |-> calculate_sentiment_score(score + 100, 100, 800 - score)]

\* analyze_articles on texts the classifier gives these scores
AnalyzedWith(scores) == [i \in DOMAIN scores |-> analyze_article(ClassifiedAs(scores[i]))]

\* the analyzed lists of the callers: no article, and twelve articles scored
\* 0.4, 0.5 and 0.6 four times each
AnalyzedLists ==
    {<<>>, AnalyzedWith(<<600, 500, 400, 500, 600, 400, 500, 600, 400, 500, 600, 400>>)}

\* published within the last hour: without an offset, and with 'Z'
FreshTimes == {[kind |-> "naive", hours |-> 1], [kind |-> "aware", hours |-> 1]}

\* the callers' step 3: the analyzed list is aggregated and then scored with
\* its own aggregate
ScoreAnalyzed ==
    /\ spc = "articles"
    /\ score_articles = <<>>
    /\ \E analyzed \in AnalyzedLists, published_at \in FreshTimes :
          LET aggregated_sentiment == get_aggregated_sentiment(analyzed)
              runs == IF analyzed = <<>> THEN <<>>
                      ELSE <<[count |-> Len(analyzed), published_at |-> published_at]>>
          IN  /\ score_articles' = runs
              /\ score_input' = aggregated_sentiment
              /\ scoring' = calculate_score(weights, aggregated_sentiment, runs)
    /\ spc' = "scored"
    /\ UNCHANGED <<weights, collectVars, aggVars, requestVars>>

NextScore ==
    \/ MoreArticles
    \/ CalculateScore
    \/ ScoreAnalyzed

-----------------------------------------------------------------------------
(* utils.format_ticker and utils.validate_ticker *)

\* str.upper() on one character
UpperChar(c) == IF c = "a" THEN "A" ELSE IF c = "b" THEN "B" ELSE c

\* str.upper()
Upper(t) == [i \in DOMAIN t |-> UpperChar(t[i])]

RECURSIVE StripLeft(_)
StripLeft(t) == IF t /= <<>> /\ Head(t) = " " THEN StripLeft(Tail(t)) ELSE t

RECURSIVE StripRight(_)
StripRight(t) ==
    IF t /= <<>> /\ t[Len(t)] = " " THEN StripRight(SubSeq(t, 1, Len(t) - 1)) ELSE t

\* str.strip()
Strip(t) == StripLeft(StripRight(t))

\* utils.format_ticker
format_ticker(t) == Strip(Upper(t))

\* str.isalpha() on the characters of the model: the letters
IsAlpha(t) == t /= <<>> /\ \A i \in DOMAIN t : t[i] \in {"a", "b", "A", "B"}

\* what yf.Ticker(ticker).info did: it raised, or it returned a dict
InfoRaised == [raised |-> TRUE, info |-> <<>>]
InfoReturned(info) == [raised |-> FALSE, info |-> info]

\* the info of a listed stock
ListedInfo ==
    [symbol |-> "AB", longName |-> "AB Inc.", sector |-> "Technology",
     industry |-> "Software", marketCap |-> 1000, currentPrice |-> 110,
     previousClose |-> 100]

\* the almost empty info yfinance returns for a ticker it does not know
UnknownInfo == [trailingPegRatio |-> 0]

\* an info of five fields, none of them symbol, shortName or longName
NamelessInfo ==
    [sector |-> "Technology", industry |-> "Software", marketCap |-> 1000,
     currentPrice |-> 0, previousClose |-> 100]

Lookups == {InfoRaised, InfoReturned(ListedInfo), InfoReturned(UnknownInfo),
            InfoReturned(NamelessInfo)}

\* the format test of validate_ticker, on the upper-cased, stripped ticker
WellFormed(t) ==
    LET formatted == Strip(Upper(t))
    IN  /\ formatted /= <<>>
        /\ Len(formatted) <= 5
        /\ IsAlpha(formatted)

\* what validate_ticker returns, and whether it asked yfinance
Validated(valid, looked_up) == [valid |-> valid, looked_up |-> looked_up]

\* validate_ticker without the format test
validate_ticker_by_lookup(t, lookup) ==
    IF lookup.raised THEN Validated(TRUE, TRUE)
    ELSE IF Cardinality(DOMAIN lookup.info) < 5 THEN Validated(FALSE, TRUE)
    ELSE Validated(DOMAIN lookup.info \cap {"symbol", "shortName", "longName"} /= {},
                   TRUE)

\* utils.validate_ticker; the lookup is made only for a well-formed ticker,
\* and a lookup that raises accepts the ticker
validate_ticker(t, lookup) ==
    IF ~WellFormed(t) THEN Validated(FALSE, FALSE)
    ELSE IF lookup.raised THEN Validated(TRUE, TRUE)
    ELSE IF Cardinality(DOMAIN lookup.info) < 5 THEN Validated(FALSE, TRUE)
    ELSE Validated(DOMAIN lookup.info \cap {"symbol", "shortName", "longName"} /= {},
                   TRUE)

-----------------------------------------------------------------------------
(* StockScorer: get_stock_info, _get_top_articles and generate_report *)

\* Python's None as the value of a missing info field
PyNone == "None"

\* StockScorer._calculate_change_percent; a missing price is passed as 0,
\* which the test `not current` treats like None
_calculate_change_percent(current, previous) ==
    IF current = 0 \/ previous = 0 THEN Rat(0, 1)
    ELSE Rat((current - previous) * 100, previous)

\* the fallback without the sector and the industry
get_stock_info_partial(t, lookup) ==
    IF lookup.raised
    THEN [ticker |-> format_ticker(t), company_name |-> format_ticker(t)]
    ELSE LET info == lookup.info
         IN  [ticker |-> format_ticker(t),
              company_name |-> Get(info, "longName", format_ticker(t)),
              sector |-> Get(info, "sector", "Unknown"),
              industry |-> Get(info, "industry", "Unknown"),
              market_cap |-> Get(info, "marketCap", PyNone),
              current_price |-> Get(info, "currentPrice", PyNone),
              previous_close |-> Get(info, "previousClose", PyNone),
              day_change_percent |->
                _calculate_change_percent(Get(info, "currentPrice", 0),
                                          Get(info, "previousClose", 0))]

\* StockScorer.get_stock_info
get_stock_info(t, lookup) ==
    IF lookup.raised
    THEN [ticker |-> format_ticker(t), company_name |-> format_ticker(t),
          sector |-> "Unknown", industry |-> "Unknown"]
    ELSE LET info == lookup.info
         IN  [ticker |-> format_ticker(t),
              company_name |-> Get(info, "longName", format_ticker(t)),
              sector |-> Get(info, "sector", "Unknown"),
              industry |-> Get(info, "industry", "Unknown"),
              market_cap |-> Get(info, "marketCap", PyNone),
              current_price |-> Get(info, "currentPrice", PyNone),
              previous_close |-> Get(info, "previousClose", PyNone),
              day_change_percent |->
                _calculate_change_percent(Get(info, "currentPrice", 0),
                                          Get(info, "previousClose", 0))]

\* the signed score as the sort key
SignedScore(article) == ScoreOf(article)

\* the sort key: abs(x.get("sentiment", {}).get("score", 0))
Magnitude(article) == Abs(ScoreOf(article))

RECURSIVE InsertByMagnitude(_, _)
\* a goes behind every element whose key is >= its own (sorted is stable,
\* with reverse=True too)
InsertByMagnitude(sorted, a) ==
    IF sorted = <<>> THEN <<a>>
    ELSE IF Magnitude(Head(sorted)) < Magnitude(a) THEN <<a>> \o sorted
    ELSE <<Head(sorted)>> \o InsertByMagnitude(Tail(sorted), a)

RECURSIVE SortByMagnitudeFrom(_, _)
SortByMagnitudeFrom(articles, acc) ==
    IF articles = <<>> THEN acc
    ELSE SortByMagnitudeFrom(Tail(articles), InsertByMagnitude(acc, Head(articles)))

\* sorted(articles, key=abs(score), reverse=True)
SortByMagnitude(articles) == SortByMagnitudeFrom(articles, <<>>)

\* the dict appended to top_articles for one article
TopArticle(article) ==
    [title |-> Get(article, "title", <<>>),
     sentiment_score |-> ScoreOf(article),
     sentiment_label |-> LabelOf(article),
     url |-> Get(article, "url", <<>>),
     published_at |-> Get(article, "published_at", <<>>)]

\* StockScorer._get_top_articles
_get_top_articles(articles, n) ==
    IF articles = <<>> THEN <<>>
    ELSE LET sorted_articles == Take(SortByMagnitude(articles), n)
         IN  [i \in DOMAIN sorted_articles |-> TopArticle(sorted_articles[i])]

\* StockScorer.generate_report; lookup is what yfinance does for
\* get_stock_info, now is datetime.now().isoformat()
generate_report(t, aggregated_sentiment, articles, scoring_result, lookup, now) ==
    [ticker |-> t,
     analysis_date |-> now,
     stock_info |-> get_stock_info(t, lookup),
     sentiment_analysis |-> aggregated_sentiment,
     scoring |-> scoring_result,
     article_count |-> Len(articles),
     top_articles |-> _get_top_articles(articles, 5)]

-----------------------------------------------------------------------------
(* StockScorer: one generate_report call on some analyzed articles *)

\* the articles argument has at most this many articles
MaxReported == 6

\* the ticker arguments: "ab" and " A"
ReportTickers == {<<"a", "b">>, <<" ", "A">>}

\* the scores of the analyzed articles: -1.0, -0.3 and 0.3
ReportSentiments == {c \in ClassifierOutputs : c.score \in {-1000, -300, 300}}

\* the article at place i of the list: an analyzed article, or one without a
\* sentiment; its url tells its place
ReportArticles(i) ==
    LET article == [title |-> <<"a">>, url |-> <<i>>, published_at |-> <<2>>]
    IN  {article @@ analyze_article(sentiment) : sentiment \in ReportSentiments}
            \cup {article}

\* the clock values of datetime.now()
Clock == {<<2>>}

\* the record of a call to yfinance
Call(name, raised) == [name |-> name, raised |-> raised]

InitReport ==
    /\ rpc = "articles"
    /\ request = <<>>
    /\ ticker \in ReportTickers
    /\ calls = <<>>
    /\ outcome = <<>>
    /\ report = <<>>

\* the caller's list grows by one article
ReportedArticle ==
    /\ rpc = "articles"
    /\ Len(analyzed_articles) < MaxReported
    /\ \E article \in ReportArticles(Len(analyzed_articles) + 1) :
          analyzed_articles' = Append(analyzed_articles, article)
    /\ UNCHANGED <<apc, aggregated, collectVars, scoreVars, requestVars>>

\* generate_report on the list, with the aggregate and the scoring record
\* the caller holds
GenerateReport ==
    /\ rpc = "articles"
    /\ \E lookup \in Lookups, now \in Clock :
          /\ report' = generate_report(ticker, aggregated, analyzed_articles,
                                       scoring, lookup, now)
          /\ calls' = Append(calls, Call("stock.info", lookup.raised))
    /\ rpc' = "reported"
    /\ UNCHANGED <<request, ticker, outcome, collectVars, aggVars, scoreVars>>

NextReport ==
    \/ ReportedArticle
    \/ GenerateReport

-----------------------------------------------------------------------------
(* One analysis request: main of src/src/cli.py, analyze_ticker of           *)
(* src/api/main.py                                                           *)

\* the scorer of the API serves at most this many requests
MaxRequests == 2

\* the ticker arguments: "", "ab", " A", "A1", "ababab"
RequestTickers ==
    {<<>>, <<"a", "b">>, <<" ", "A">>, <<"A", "1">>, <<"a", "b", "a", "b", "a", "b">>}

\* the requests: the route of the API does not match an empty ticker
Requests(number) ==
    {r \in [frontend : {"cli", "api"}, ticker : RequestTickers, number : {number}] :
        r.frontend = "api" => r.ticker /= <<>>}

\* how a request ends: the HTTP status of the API, the exit code of the CLI
validation_error(frontend) ==
    [kind |-> "validation error", code |-> IF frontend = "api" THEN 400 ELSE 1]
not_found_as_error(frontend) ==
    [kind |-> "internal error", code |-> IF frontend = "api" THEN 500 ELSE 1]
not_found(frontend) ==
    [kind |-> "not found", code |-> IF frontend = "api" THEN 404 ELSE 1]
internal_error(frontend) ==
    [kind |-> "internal error", code |-> IF frontend = "api" THEN 500 ELSE 1]
success(frontend) ==
    [kind |-> "success", code |-> IF frontend = "api" THEN 200 ELSE 0]

\* what the providers answer to the request: an error, or one item; the item
\* of NewsAPI may have a null title
RequestResponses(src) ==
    IF src = "newsapi"
    THEN {NetError, Response(<<[title |-> <<"a">>, published_at |-> <<2>>]>>),
          Response(<<[title |-> NoneTitle, published_at |-> <<2>>]>>)}
    ELSE IF src = "finnhub"
    THEN {NetError, Response(<<[title |-> <<"b">>, published_at |-> <<1, 2>>]>>)}
    ELSE {NetError, Response(<<[title |-> <<"c">>, published_at |-> <<2>>]>>)}

\* NewsCollector.collect_all as a function of what the network does
collect_all(k, n, limit) ==
    LET news_api == collect_news_api(k.newsapi, n.newsapi)
        finnhub == collect_finnhub(k.finnhub, n.finnhub)
        yfinance_news == collect_yfinance_news(n.yahoo_finance)
        all == news_api.articles \o finnhub.articles \o yfinance_news.articles
    IN  IF news_api.raised \/ finnhub.raised \/ yfinance_news.raised THEN Raised
        ELSE IF LowerRaises(all) \/ SortRaises(Deduplicate(all)) THEN Raised
        ELSE Returned(Limit(SortNewestFirst(Deduplicate(all)), limit))

\* what the tokenizer and the model did for one text inside
\* analyze_with_finbert: they raised, or the probabilities were computed
ClassifierRaised == [raised |-> TRUE, sentiment |-> <<>>]
Classified(sentiment) == [raised |-> FALSE, sentiment |-> sentiment]

\* the classifier of the requests scores a text 1.0 or -0.3, or raises
ClassifierResults ==
    {ClassifierRaised}
        \cup {Classified(c) : c \in {c \in ClassifierOutputs : c.score \in {-300, 1000}}}

\* SentimentAnalyzer.analyze_with_finbert on a text that is not empty: the
\* except clause returns the neutral record
analyze_with_finbert(c) ==
    IF c.raised THEN [positive |-> 0, negative |-> 0, neutral |-> 1000, score |-> 0]
    ELSE c.sentiment

\* the published_at of a collected article as datetime.fromisoformat reads
\* it: NewsAPI's publishedAt ends in 'Z', Finnhub's and Yahoo's is an
\* isoformat() without offset; the articles of the requests are an hour old
ParsedAt(article) ==
    IF article.source = "newsapi" THEN [kind |-> "aware", hours |-> 1]
    ELSE [kind |-> "naive", hours |-> 1]

\* the analyzed articles as the runs calculate_score reads
RunsOf(articles) ==
    [i \in DOMAIN articles |-> [count |-> 1, published_at |-> ParsedAt(articles[i])]]

\* the calls to the classifier logged so far
ClassifierCalls == SelectSeq(calls, LAMBDA c : c.name = "classifier")

\* the stage the request is about to call
StageAt(pc) ==
    IF pc = "collect" THEN "collect_all"
    ELSE IF pc = "classify" THEN "analyze_articles"
    ELSE IF pc = "aggregate" THEN "get_aggregated_sentiment"
    ELSE IF pc = "score" THEN "calculate_score"
    ELSE "generate_report"

InitRequest ==
    /\ rpc = "validate"
    /\ request \in Requests(1)
    /\ ticker = <<>>
    /\ calls = <<>>
    /\ outcome = <<>>
    /\ report = <<>>

\* the collector of the request: both keys are set, max_articles is the
\* default 50
RequestCollector ==
    /\ cpc = "idle"
    /\ keys = [s \in {"newsapi", "finnhub"} |-> TRUE]
    /\ net = [s \in {"newsapi", "finnhub", "yahoo_finance"} |-> NotCalled]
    /\ max_articles = 50
    /\ all_articles = <<>>
    /\ unique_articles = <<>>
    /\ result = <<>>

\* format_ticker, then validate_ticker: exit 1 or HTTP 400 when it is false
RequestValidate ==
    /\ rpc = "validate"
    /\ ticker' = format_ticker(request.ticker)
    /\ \E lookup \in Lookups :
          LET validated == validate_ticker(ticker', lookup)
          IN  /\ calls' = calls \o <<Call("validate_ticker", FALSE)>>
                    \o (IF validated.looked_up
                        THEN <<Call("stock.info", lookup.raised)>> ELSE <<>>)
              /\ IF validated.valid
                 THEN rpc' = "collect" /\ outcome' = outcome
                 ELSE rpc' = "done" /\ outcome' = validation_error(request.frontend)
    /\ UNCHANGED <<request, report, collectVars, aggVars, scoreVars>>

\* Step 1: collect_all; no article is exit 1 or HTTP 404, an exception is
\* exit 1 or HTTP 500
RequestCollect ==
    /\ rpc = "collect"
    /\ \E n \in [{"newsapi", "finnhub", "yahoo_finance"} ->
                    UNION {RequestResponses(s) : s \in {"newsapi", "finnhub", "yahoo_finance"}}] :
          /\ \A s \in DOMAIN n : n[s] \in RequestResponses(s)
          /\ LET articles == collect_all(keys, n, max_articles)
             IN  /\ net' = n
                 /\ calls' = calls \o
                        <<Call("collect_news_api", n.newsapi.status = "error"),
                          Call("collect_finnhub", n.finnhub.status = "error"),
                          Call("collect_yfinance_news", n.yahoo_finance.status = "error"),
                          Call("collect_all", articles.raised)>>
                 /\ result' = articles.articles
                 /\ IF articles.raised
                    THEN /\ cpc' = "raised"
                         /\ rpc' = "done"
                         /\ outcome' = internal_error(request.frontend)
                    ELSE IF articles.articles = <<>>
                    THEN /\ cpc' = "done"
                         /\ rpc' = "done"
                         /\ outcome' = not_found(request.frontend)
                    ELSE /\ cpc' = "done"
                         /\ rpc' = "classify"
                         /\ outcome' = outcome
    /\ UNCHANGED <<keys, max_articles, all_articles, unique_articles, request, ticker,
                   report, aggVars, scoreVars>>

\* Step 2, one turn of the loop of analyze_articles: the text of a collected
\* article is never empty, so the classifier is called; when it raises,
\* analyze_with_finbert returns the neutral record and the article is
\* appended like any other
RequestClassify ==
    /\ rpc = "classify"
    /\ Len(ClassifierCalls) < Len(result)
    /\ \E c \in ClassifierResults :
          LET article == result[Len(ClassifierCalls) + 1]
          IN  /\ analyzed_articles' =
                    Append(analyzed_articles,
                           analyze_article(analyze_with_finbert(c)) @@ article)
              /\ calls' = Append(calls, Call("classifier", c.raised))
    /\ apc' = "analyzing"
    /\ UNCHANGED <<rpc, request, ticker, outcome, report, aggregated, collectVars,
                   scoreVars>>

\* analyze_articles returns
RequestAnalyzed ==
    /\ rpc = "classify"
    /\ Len(ClassifierCalls) = Len(result)
    /\ calls' = Append(calls, Call("analyze_articles", FALSE))
    /\ rpc' = "aggregate"
    /\ UNCHANGED <<request, ticker, outcome, report, collectVars, aggVars, scoreVars>>

\* Step 3: get_aggregated_sentiment
RequestAggregate ==
    /\ rpc = "aggregate"
    /\ aggregated' = get_aggregated_sentiment(analyzed_articles)
    /\ apc' = "aggregated"
    /\ calls' = Append(calls, Call("get_aggregated_sentiment", FALSE))
    /\ rpc' = "score"
    /\ UNCHANGED <<request, ticker, outcome, report, analyzed_articles, collectVars,
                   scoreVars>>

\* calculate_score that adjusts the weights of the scorer to the request
RequestScoreTuned ==
    /\ rpc = "score"
    /\ weights' = [weights EXCEPT !.recency = Rat(0, 1)]
    /\ score_articles' = RunsOf(analyzed_articles)
    /\ score_input' = aggregated
    /\ scoring' = calculate_score(weights', aggregated, RunsOf(analyzed_articles))
    /\ spc' = "scored"
    /\ calls' = Append(calls, Call("calculate_score", FALSE))
    /\ rpc' = "report"
    /\ UNCHANGED <<request, ticker, outcome, report, collectVars, aggVars>>

\* calculate_score on the scorer, which the requests of the API share
RequestScore ==
    /\ rpc = "score"
    /\ score_articles' = RunsOf(analyzed_articles)
    /\ score_input' = aggregated
    /\ scoring' = calculate_score(weights, aggregated, RunsOf(analyzed_articles))
    /\ spc' = "scored"
    /\ calls' = Append(calls, Call("calculate_score", FALSE))
    /\ rpc' = "report"
    /\ UNCHANGED <<request, ticker, outcome, report, weights, collectVars, aggVars>>

\* generate_report, then the report is returned (API) or printed and saved
\* (CLI)
RequestReport ==
    /\ rpc = "report"
    /\ \E lookup \in Lookups, now \in Clock :
          /\ report' = generate_report(ticker, aggregated, analyzed_articles,
                                       scoring, lookup, now)
          /\ calls' = calls \o <<Call("generate_report", FALSE),
                                 Call("stock.info", lookup.raised)>>
    /\ outcome' = success(request.frontend)
    /\ rpc' = "done"
    /\ UNCHANGED <<request, ticker, collectVars, aggVars, scoreVars>>

\* the stage is called again after it raised
StageRetried ==
    /\ rpc \in {"collect", "classify", "aggregate", "score", "report"}
    /\ \A i \in DOMAIN calls : ~(calls[i].name = StageAt(rpc) /\ calls[i].raised)
    /\ calls' = Append(calls, Call(StageAt(rpc), TRUE))
    /\ UNCHANGED <<rpc, request, ticker, outcome, report, collectVars, aggVars,
                   scoreVars>>

\* a stage inside the try block raises an exception: `except Exception` logs
\* it and raises HTTPException 500 (API) or exits with 1 (CLI)
StageRaises ==
    /\ rpc \in {"collect", "classify", "aggregate", "score", "report"}
    /\ calls' = Append(calls, Call(StageAt(rpc), TRUE))
    /\ outcome' = internal_error(request.frontend)
    /\ rpc' = "done"
    /\ UNCHANGED <<request, ticker, report, collectVars, aggVars, scoreVars>>

\* the next request: its locals are fresh, the collector, the analyzer and
\* the scorer are the same objects
NextRequest ==
    /\ rpc = "done"
    /\ request.number < MaxRequests
    /\ request' \in Requests(request.number + 1)
    /\ rpc' = "validate"
    /\ ticker' = <<>>
    /\ calls' = <<>>
    /\ outcome' = <<>>
    /\ report' = <<>>
    /\ cpc' = "idle"
    /\ net' = [s \in {"newsapi", "finnhub", "yahoo_finance"} |-> NotCalled]
    /\ all_articles' = <<>>
    /\ unique_articles' = <<>>
    /\ result' = <<>>
    /\ apc' = "idle"
    /\ analyzed_articles' = <<>>
    /\ aggregated' = <<>>
    /\ spc' = "idle"
    /\ score_articles' = <<>>
    /\ score_input' = <<>>
    /\ scoring' = <<>>
    /\ UNCHANGED <<keys, max_articles, weights>>

NextServe ==
    \/ RequestValidate
    \/ RequestCollect
    \/ RequestClassify
    \/ RequestAnalyzed
    \/ RequestAggregate
    \/ RequestScore
    \/ RequestReport
    \/ StageRaises
    \/ NextRequest

-----------------------------------------------------------------------------
(* Specifications *)

\* the analyzer and the scorer before any call
IdleAggregate == apc = "idle" /\ analyzed_articles = <<>> /\ aggregated = <<>>
IdleScore ==
    /\ spc = "idle"
    /\ weights = InitialWeights
    /\ score_articles = <<>>
    /\ score_input = <<>>
    /\ scoring = <<>>
IdleCollect ==
    /\ cpc = "idle"
    /\ keys = [s \in {"newsapi", "finnhub"} |-> FALSE]
    /\ net = [s \in {"newsapi", "finnhub", "yahoo_finance"} |-> NotCalled]
    /\ max_articles = 1
    /\ all_articles = <<>>
    /\ unique_articles = <<>>
    /\ result = <<>>

\* no request is being served
IdleRequest ==
    /\ rpc = "idle"
    /\ request = <<>>
    /\ ticker = <<>>
    /\ calls = <<>>
    /\ outcome = <<>>
    /\ report = <<>>

\* one collect_all call
CollectInit == InitCollect /\ IdleAggregate /\ IdleScore /\ IdleRequest

SpecCollect == CollectInit /\ [][NextCollect]_vars

SpecNullable == CollectInit /\ [][NextNullable]_vars

\* the scoring record of no article, which the caller of generate_report holds
ScoredNothing ==
    /\ spc = "scored"
    /\ weights = InitialWeights
    /\ score_articles = <<>>
    /\ score_input = EmptyAggregate
    /\ scoring = calculate_score(InitialWeights, EmptyAggregate, <<>>)

\* one generate_report call
ReportInit ==
    /\ IdleCollect
    /\ apc = "aggregated" /\ analyzed_articles = <<>> /\ aggregated = EmptyAggregate
    /\ ScoredNothing
    /\ InitReport

SpecReport == ReportInit /\ [][NextReport]_vars

\* the requests served by one collector, one analyzer and one scorer
RequestInit == RequestCollector /\ IdleAggregate /\ IdleScore /\ InitRequest

SpecRequest == RequestInit /\ [][NextServe]_vars

-----------------------------------------------------------------------------
(* Claims about collect_all *)

\* what the response of one provider is worth when its fetcher did not fail
Contribution(src) ==
    IF net[src].status = "ok" THEN Normalize(src, net[src].items) ELSE <<>>

\* a fetcher failed: its key is missing, or its request raised
Failed(src) ==
    \/ src /= "yahoo_finance" /\ ~keys[src]
    \/ net[src].status = "error"

\* the index of the first fetched article with this title, ignoring case
FirstWithTitle(title) ==
    CHOOSE i \in DOMAIN all_articles :
        /\ Lower(all_articles[i].title) = Lower(title)
        /\ \A j \in 1..(i - 1) : Lower(all_articles[j].title) /= Lower(title)

\* C1: all_articles is the fetchers' results in the order NewsAPI, Finnhub,
\* Yahoo Finance; no two returned articles have titles equal ignoring case,
\* and every returned article is the first fetched one with its title.
C1_FirstOccurrenceWins ==
    cpc = "done" =>
        /\ all_articles = Contribution("newsapi") \o Contribution("finnhub")
                            \o Contribution("yahoo_finance")
        /\ \A i, j \in DOMAIN result :
              i /= j => Lower(result[i].title) /= Lower(result[j].title)
        /\ \A i \in DOMAIN result :
              /\ \E k \in DOMAIN all_articles : all_articles[k] = result[i]
              /\ result[i] = all_articles[FirstWithTitle(result[i].title)]

\* C1 witness: a later provider repeats a title in another case with a newer
\* published_at, and the earlier article is the one returned.
C1_Witness ==
    /\ cpc = "done"
    /\ \E i, j \in DOMAIN all_articles :
          /\ i < j
          /\ all_articles[i].source /= all_articles[j].source
          /\ all_articles[i].title /= all_articles[j].title
          /\ Lower(all_articles[i].title) = Lower(all_articles[j].title)
          /\ StrLess(all_articles[i].published_at, all_articles[j].published_at)
          /\ all_articles[i] \in Range(result)
          /\ all_articles[j] \notin Range(result)

C3_SortedAndTruncated ==
    cpc = "done" =>
        /\ Len(result) <= max_articles
        /\ Len(result) = Min(max_articles, Len(unique_articles))
        /\ Range(unique_articles) = Range(Deduplicate(all_articles))
        /\ Len(unique_articles) = Len(Deduplicate(all_articles))
        /\ Range(result) \subseteq Range(unique_articles)
        /\ \A i, j \in DOMAIN result :
              i < j => ~StrLess(result[i].published_at, result[j].published_at)
        /\ \A d \in Range(unique_articles) \ Range(result) :
              \A k \in Range(result) : ~StrLess(k.published_at, d.published_at)

\* C3 witness: three unique articles, max_articles = 2, the one without a
\* published_at is last and cut off, and the two kept differ in published_at.
C3_Witness ==
    /\ cpc = "done"
    /\ Len(unique_articles) = 3
    /\ max_articles = 2
    /\ unique_articles[3].published_at = <<>>
    /\ unique_articles[3] \notin Range(result)
    /\ StrLess(result[2].published_at, result[1].published_at)

\* C4: collect_all never raises on a missing key or a network error, and a
\* failed fetcher contributes nothing: the result is collect_all's result on
\* the articles of the fetchers that did not fail.
C4_PartialFailure ==
    /\ cpc /= "raised"
    /\ cpc = "done" =>
          LET remaining == Contribution("newsapi") \o Contribution("finnhub")
                             \o Contribution("yahoo_finance")
          IN  /\ \A src \in DOMAIN net : Failed(src) => Contribution(src) = <<>>
              /\ all_articles = remaining
              /\ result = Limit(SortNewestFirst(Deduplicate(remaining)), max_articles)

\* C4 witness: NewsAPI's request failed, Finnhub has no key, Yahoo Finance
\* answered, and its articles are returned.
C4_Witness ==
    /\ cpc = "done"
    /\ keys.newsapi /\ net.newsapi.status = "error"
    /\ ~keys.finnhub
    /\ net.yahoo_finance.status = "ok"
    /\ Len(result) >= 2
    /\ \A a \in Range(result) : a.source = "yahoo_finance"

-----------------------------------------------------------------------------
(* Specifications of the analyzer and of the scorer *)

ScoreInit == IdleCollect /\ IdleAggregate /\ InitScore /\ IdleRequest

\* one calculate_score call
SpecScore == ScoreInit /\ [][NextScore]_vars

AggregateInit == IdleCollect /\ InitAggregate /\ IdleScore /\ IdleRequest

\* articles are analyzed, then get_aggregated_sentiment is called once
SpecAggregate == AggregateInit /\ [][NextAggregate]_vars

-----------------------------------------------------------------------------
(* Claims about get_aggregated_sentiment and the label rule *)

\* the articles that analyze_article made carry the classifier's probabilities
FromAnalyzer(article) ==
    /\ "sentiment" \in DOMAIN article
    /\ "positive" \in DOMAIN article.sentiment

\* the score get_aggregated_sentiment reads from the i-th article
ScoreAt(i) ==
    IF "sentiment" \in DOMAIN analyzed_articles[i]
       /\ "score" \in DOMAIN analyzed_articles[i].sentiment
    THEN analyzed_articles[i].sentiment.score
    ELSE 0

\* the indices of the articles that carry exactly this label
Labelled(label) ==
    {i \in DOMAIN analyzed_articles :
        /\ "sentiment_label" \in DOMAIN analyzed_articles[i]
        /\ analyzed_articles[i].sentiment_label = label}

Zero == Rat(0, 1)
One == Rat(1, 1)
InUnitRange(x) == RatLeq(Rat(-1, 1), x) /\ RatLeq(x, One)

\* C6 as stated: for an empty list the record has mean_score, median_score,
\* std_score, min_score, max_score and the three ratios, all 0.0, with
\* article_count 0 and overall_label neutral.
C6_ZeroRecord ==
    apc = "aggregated" /\ analyzed_articles = <<>> =>
        /\ {"mean_score", "median_score", "std_score", "min_score", "max_score",
            "positive_ratio", "negative_ratio", "neutral_ratio",
            "article_count", "overall_label"} \subseteq DOMAIN aggregated
        /\ \A k \in {"mean_score", "median_score", "std_score", "min_score",
                     "max_score", "positive_ratio", "negative_ratio",
                     "neutral_ratio"} : RatEq(aggregated[k], Zero)
        /\ aggregated.article_count = 0
        /\ aggregated.overall_label = "neutral"

C8_RatiosSumToOne ==
    apc = "aggregated" /\ analyzed_articles /= <<>> =>
        LET n == Len(analyzed_articles)
            bullish == Labelled("bullish")
            bearish == Labelled("bearish")
            neutral == DOMAIN analyzed_articles \ (bullish \cup bearish)
        IN  /\ aggregated.article_count = n
            /\ RatEq(aggregated.positive_ratio, Rat(Cardinality(bullish), n))
            /\ RatEq(aggregated.negative_ratio, Rat(Cardinality(bearish), n))
            /\ RatEq(aggregated.neutral_ratio, Rat(Cardinality(neutral), n))
            /\ RatEq(RatAdd(RatAdd(aggregated.positive_ratio, aggregated.negative_ratio),
                            aggregated.neutral_ratio), One)

\* C8 witness: one bullish article, one with an unrecognised label and one
\* with no label; the ratios are 1/3, 0, 2/3.
C8_Witness ==
    /\ apc = "aggregated"
    /\ Len(analyzed_articles) = 3
    /\ Labelled("bullish") /= {}
    /\ Labelled("positive") /= {}
    /\ \E i \in DOMAIN analyzed_articles :
          "sentiment_label" \notin DOMAIN analyzed_articles[i]
    /\ RatEq(aggregated.positive_ratio, Rat(1, 3))
    /\ RatEq(aggregated.neutral_ratio, Rat(2, 3))

\* the rule of C9 on a score and a threshold in thousandths
LabelRule(score, threshold) ==
    IF score > threshold THEN "bullish"
    ELSE IF score < -threshold THEN "bearish"
    ELSE "neutral"

\* C9: score > 0.3 is bullish, score < -0.3 is bearish, anything else (0.3 and
\* -0.3 included) is neutral; analyze_article labels each article and
\* get_aggregated_sentiment labels the mean by this rule; _get_label and
\* get_sentiment_label agree on every score and threshold.
C9_StrictThreshold ==
    /\ \A i \in DOMAIN analyzed_articles :
          FromAnalyzer(analyzed_articles[i]) =>
              analyzed_articles[i].sentiment_label
                  = LabelRule(analyzed_articles[i].sentiment.score, 300)
    /\ apc = "aggregated" /\ analyzed_articles /= <<>> =>
          LET total == SumSeq([i \in DOMAIN analyzed_articles |-> ScoreAt(i)])
              n == Len(analyzed_articles)
          IN  aggregated.overall_label = LabelRule(total, 300 * n)
    /\ \A score \in {-1000, -301, -300, -299, -100, 0, 100, 299, 300, 301, 1000} :
          \A threshold \in {-100, 0, 100, 300, 1000} :
              /\ get_label(Milli(score), Milli(threshold)) = LabelRule(score, threshold)
              /\ get_sentiment_label(Milli(score), Milli(threshold))
                    = get_label(Milli(score), Milli(threshold))

\* C9 witness: an article scored exactly 0.3 is neutral, one scored 0.301 is
\* bullish, and their mean, just above 0.3, is bullish.
C9_Witness ==
    /\ apc = "aggregated"
    /\ Len(analyzed_articles) = 3
    /\ \A i \in DOMAIN analyzed_articles : FromAnalyzer(analyzed_articles[i])
    /\ ScoreAt(1) = 300 /\ analyzed_articles[1].sentiment_label = "neutral"
    /\ ScoreAt(2) = 301 /\ analyzed_articles[2].sentiment_label = "bullish"
    /\ ScoreAt(3) = 301
    /\ aggregated.overall_label = "bullish"

-----------------------------------------------------------------------------
(* Claims about calculate_score *)

\* the article counts on which the component functions are compared
MaxCount == 25

\* the step function of C10
VolumeStep(n) ==
    IF n = 0 THEN Rat(-1, 1)
    ELSE IF n \in 1..4 THEN Rat(-1, 2)
    ELSE IF n \in 5..9 THEN Rat(-1, 5)
    ELSE Zero

\* C10: the volume component is -1.0 for 0 articles, -0.5 for 1 to 4, -0.2 for
\* 5 to 9 and 0.0 from 10 on, whatever the aggregate and the timestamps; it is
\* never positive and never decreases when the count grows.
C10_VolumeStep ==
    /\ spc = "scored" =>
          /\ RatEq(scoring.components.volume, VolumeStep(ArticleCount(score_articles)))
          /\ RatLeq(scoring.components.volume, Zero)
    \* the function itself on 0..MaxCount+1 and on 1000, compared once, in
    \* the initial state
    /\ score_articles = <<>> /\ spc = "articles" =>
          /\ \A n \in (0..(MaxCount + 1)) \cup {1000} :
                RatEq(_calculate_volume_component(n), VolumeStep(n))
          /\ \A n \in 0..MaxCount :
                /\ RatLeq(_calculate_volume_component(n), _calculate_volume_component(n + 1))
                /\ RatLeq(_calculate_volume_component(n), _calculate_volume_component(1000))

\* C10 witness: a thousand articles score a volume of 0.0, no more than ten do.
C10_Witness ==
    /\ spc = "scored"
    /\ ArticleCount(score_articles) = 1000
    /\ RatEq(scoring.components.volume, Zero)
    /\ RatEq(_calculate_volume_component(10), Zero)
    /\ RatEq(_calculate_volume_component(9), Rat(-1, 5))
    /\ RatEq(_calculate_volume_component(4), Rat(-1, 2))
    /\ RatEq(_calculate_volume_component(0), Rat(-1, 1))

-----------------------------------------------------------------------------
(* Claims about the consistency component *)

\* clamp(1 - 2*std, -1, 1)
ConsistencyOf(std) ==
    LET raw == RatAdd(One, RatNeg(RatAdd(std, std)))
    IN  IF RatLess(raw, RatNeg(One)) THEN RatNeg(One)
        ELSE IF RatLess(One, raw) THEN One
        ELSE raw

\* C11: the reported consistency is 0.0 when fewer than 10 articles are
\* scored, whatever std_score is, and clamp(1 - 2*std_score, -1, 1) from 10
\* articles on: 1.0 for std 0.0, -1.0 for std 1.0; it is always in [-1,1].
C11_Consistency ==
    /\ spc = "scored" /\ "std_score" \in DOMAIN score_input =>
          LET n == ArticleCount(score_articles)
              c == scoring.components.consistency
          IN  /\ n < 10 => c = Zero
              /\ n >= 10 => c = Round(ConsistencyOf(score_input.std_score), 1000)
              /\ n >= 10 /\ score_input.std_score = Zero => c = One
              /\ n >= 10 /\ score_input.std_score = One => c = RatNeg(One)
              /\ InUnitRange(c)
    \* the function itself, compared once, in the initial state
    /\ score_articles = <<>> /\ spc = "articles" =>
          \A sd \in StdScores, n \in {0, 1, 9, 10, 11, 1000} :
              _calculate_consistency_component([std_score |-> Milli(sd)], n)
                  = IF n < 10 THEN Zero ELSE ConsistencyOf(Milli(sd))

\* C11 witness: 9 articles with std 0.0 score a consistency of 0.0.
C11_Witness ==
    /\ spc = "scored"
    /\ ArticleCount(score_articles) = 9
    /\ "std_score" \in DOMAIN score_input
    /\ score_input.std_score = Zero
    /\ scoring.components.consistency = Zero

-----------------------------------------------------------------------------
(* Claims about the recency component *)

\* the sub-score, in thousandths, that the age of a parsable published_at
\* earns (naive or with a 'Z' or an offset), and 0 for an unparsable one
SubScore(published_at) ==
    IF published_at.kind = "unparsable" THEN 0
    ELSE IF published_at.hours < 24 THEN 500
    ELSE IF published_at.hours < 48 THEN 200
    ELSE IF published_at.hours < 96 THEN 0
    ELSE -200

RECURSIVE SubScoreSum(_)
SubScoreSum(runs) ==
    IF runs = <<>> THEN 0
    ELSE Head(runs).count * SubScore(Head(runs).published_at) + SubScoreSum(Tail(runs))

\* the mean of the sub-scores of the articles, 0.0 without articles
SubScoreMean(runs) ==
    IF runs = <<>> THEN Zero ELSE Rat(SubScoreSum(runs), 1000 * ArticleCount(runs))

\* C12 as stated: the reported recency is the mean, rounded to 3 decimals, of
\* the sub-scores 0.5, 0.2, 0.0, -0.2 that the articles' ages earn, an
\* unparsable published_at counting 0.0, and 0.0 without articles.
C12_RecencyMean ==
    spc = "scored" => scoring.components.recency = Round(SubScoreMean(score_articles), 1000)

\* C13 as stated: articles whose published_at ends in 'Z' and lies less than
\* 24 hours before now score a recency of 0.5.
C13_ZuluScoredByAge ==
    /\ spc = "scored"
    /\ score_articles /= <<>>
    /\ \A i \in DOMAIN score_articles :
          /\ score_articles[i].published_at.kind = "aware"
          /\ score_articles[i].published_at.hours < 24
    => scoring.components.recency = Rat(1, 2)

-----------------------------------------------------------------------------
(* Claims about the overall score *)

\* the components of the call whose result the state holds, before rounding
SentimentInput == Get(score_input, "mean_score", Zero)
ConsistencyInput ==
    _calculate_consistency_component(score_input, ArticleCount(score_articles))
VolumeInput == _calculate_volume_component(ArticleCount(score_articles))
RecencyInput == _calculate_recency_component(score_articles)

\* ((0.70*s + 0.15*c + 0.10*v + 0.05*r) * 1.5 + 1) * 50, which is
\* (70*s + 15*c + 10*v + 5*r) * 3/4 + 50
Unclamped(s, c, v, r) ==
    LET hundredfold ==
            RatAdd(RatAdd(RatMul(Rat(70, 1), s), RatMul(Rat(15, 1), c)),
                   RatAdd(RatMul(Rat(10, 1), v), RatMul(Rat(5, 1), r)))
    IN  RatAdd(RatMul(hundredfold, Rat(3, 4)), Rat(50, 1))

\* the same, clamped to [0,100]
ClampedTo100(normalized) ==
    IF RatLess(normalized, Zero) THEN Zero
    ELSE IF RatLess(Rat(100, 1), normalized) THEN Rat(100, 1)
    ELSE normalized
Composite(s, c, v, r) == ClampedTo100(Unclamped(s, c, v, r))

\* the score of the call whose result the state holds, before rounding
NormalizedInput ==
    Composite(SentimentInput, ConsistencyInput, VolumeInput, RecencyInput)

\* C14: overall_score is the composite of the four components, the sentiment
\* being mean_score unchanged, rounded to 2 decimals, and the four components
\* are reported rounded to 3 decimals.
C14_OverallScore ==
    spc = "scored" =>
        /\ scoring.overall_score
              = Round(NormalizedInput, 100)
        /\ scoring.components.sentiment = Round(SentimentInput, 1000)
        /\ scoring.components.consistency = Round(ConsistencyInput, 1000)
        /\ scoring.components.volume = Round(VolumeInput, 1000)
        /\ scoring.components.recency = Round(RecencyInput, 1000)

\* C14 witness: a call where sentiment, consistency and recency are not 0,
\* the recency has more than 3 decimals, and the score is strictly between 0
\* and 100.
C14_Witness ==
    /\ spc = "scored"
    /\ SentimentInput /= Zero
    /\ ConsistencyInput /= Zero
    /\ RecencyInput /= Zero
    /\ scoring.components.recency /= RecencyInput
    /\ RatLess(Zero, scoring.overall_score)
    /\ RatLess(scoring.overall_score, Rat(100, 1))


Between(lo, x, hi) == RatLeq(lo, x) /\ RatLeq(x, hi)

\* C15: for a mean_score in [-1,1], a std_score >= 0 and any articles, the
\* reported overall_score is in [0,100], sentiment and consistency are in
\* [-1,1], volume is in [-1,0] and recency is in [-0.5,0.5].
C15_Ranges ==
    /\ spc = "scored"
    /\ InUnitRange(SentimentInput)
    /\ RatLeq(Zero, Get(score_input, "std_score", Zero))
    => /\ Between(Zero, scoring.overall_score, Rat(100, 1))
       /\ Between(Rat(-1, 1), scoring.components.sentiment, One)
       /\ Between(Rat(-1, 1), scoring.components.consistency, One)
       /\ Between(Rat(-1, 1), scoring.components.volume, Zero)
       /\ Between(Rat(-1, 2), scoring.components.recency, Rat(1, 2))

\* C15 witness: a std_score above 1 is clamped to a consistency of -1, all
\* articles are fresh and the recency is 0.5, and the score is clamped to 0.
C15_Witness ==
    /\ spc = "scored"
    /\ RatLess(One, Get(score_input, "std_score", Zero))
    /\ scoring.components.consistency = Rat(-1, 1)
    /\ scoring.components.recency = Rat(1, 2)
    /\ ArticleCount(score_articles) > 1
    /\ scoring.overall_score = Zero
    /\ RatLess(Unclamped(SentimentInput, ConsistencyInput, VolumeInput, RecencyInput),
               Zero)


\* the tiers from STRONG SELL up to STRONG BUY
TierRank(recommendation) ==
    CASE recommendation = "STRONG SELL" -> 0
      [] recommendation = "SELL" -> 1
      [] recommendation = "WEAK SELL" -> 2
      [] recommendation = "HOLD" -> 3
      [] recommendation = "WEAK BUY" -> 4
      [] recommendation = "BUY" -> 5
      [] recommendation = "STRONG BUY" -> 6

\* the result of the same call with another mean_score, in thousandths
WithMean(m) ==
    calculate_score(weights, [score_input EXCEPT !.mean_score = Milli(m)], score_articles)

\* C16: with the same articles and std_score, a higher mean_score gives an
\* overall_score at least as high and a recommendation at least as far from
\* STRONG SELL.
C16_MonotoneInMean ==
    spc = "scored" =>
        \A m \in MeanScores :
            RatLess(score_input.mean_score, Milli(m)) =>
                LET higher == WithMean(m)
                IN  /\ RatLeq(scoring.overall_score, higher.overall_score)
                    /\ TierRank(scoring.recommendation) <= TierRank(higher.recommendation)

\* C16 witness: a mean of 0.0 gives HOLD, and the same call with a mean of 1.0
\* gives a higher score and STRONG BUY.
C16_Witness ==
    /\ spc = "scored"
    /\ score_input.mean_score = Zero
    /\ scoring.recommendation = "HOLD"
    /\ RatLess(scoring.overall_score, WithMean(1000).overall_score)
    /\ WithMean(1000).recommendation = "STRONG BUY"

-----------------------------------------------------------------------------
(* Claims about the recommendation and the confidence *)

\* the closed lower bounds of the tiers, in hundredths of a point
TierBounds ==
    <<[from |-> 7000, tier |-> "STRONG BUY"], [from |-> 6000, tier |-> "BUY"],
      [from |-> 5500, tier |-> "WEAK BUY"], [from |-> 4500, tier |-> "HOLD"],
      [from |-> 4000, tier |-> "WEAK SELL"], [from |-> 3000, tier |-> "SELL"]>>

\* a score is in a tier iff it reaches its bound and none of the bounds above
InTier(score, tier) ==
    IF tier = "STRONG SELL"
    THEN \A i \in DOMAIN TierBounds : RatLess(score, Rat(TierBounds[i].from, 100))
    ELSE \E i \in DOMAIN TierBounds :
            /\ TierBounds[i].tier = tier
            /\ RatLeq(Rat(TierBounds[i].from, 100), score)
            /\ \A j \in 1..(i - 1) : RatLess(score, Rat(TierBounds[j].from, 100))

\* scores, in hundredths, at and next to every bound, and the ends of [0,100]
TierProbes ==
    {0, 2999, 3000, 3001, 3999, 4000, 4499, 4500, 5499, 5500, 5999, 6000,
     6999, 7000, 7001, 10000}

\* C17: the recommendation is the tier of the score that calculate_score
\* passes, by closed lower bounds 70, 60, 55, 45, 40, 30; 70 gives STRONG BUY,
\* 69.99 BUY, 45 HOLD, 29.99 STRONG SELL.
C17_Tiers ==
    /\ spc = "scored" => InTier(NormalizedInput, scoring.recommendation)
    \* the function itself, compared once, in the initial state
    /\ score_articles = <<>> /\ spc = "articles" =>
          /\ \A p \in TierProbes :
                InTier(Rat(p, 100), _generate_recommendation(Rat(p, 100)))
          /\ _generate_recommendation(Rat(7000, 100)) = "STRONG BUY"
          /\ _generate_recommendation(Rat(6999, 100)) = "BUY"
          /\ _generate_recommendation(Rat(4500, 100)) = "HOLD"
          /\ _generate_recommendation(Rat(2999, 100)) = "STRONG SELL"

\* C17 witness: a call whose score is exactly 55 is recommended WEAK BUY.
C17_Witness ==
    /\ spc = "scored"
    /\ NormalizedInput = Rat(55, 1)
    /\ scoring.recommendation = "WEAK BUY"


\* the points of the article count, and of a std_score
CountPoints(n) == IF n >= 20 THEN 2 ELSE IF n >= 10 THEN 1 ELSE 0
StdPoints(std) ==
    IF RatLess(std, Milli(300)) THEN 2 ELSE IF RatLess(std, Milli(500)) THEN 1 ELSE 0
ConfidenceOf(points) ==
    IF points >= 3 THEN "high" ELSE IF points = 2 THEN "medium" ELSE "low"

\* C18: the confidence is high for 3 or 4 points, medium for 2, low for 0 or
\* 1, where the count gives 2 points from 20 articles, 1 from 10, and the
\* std_score gives 2 points below 0.3, 1 below 0.5.
C18_Confidence ==
    /\ spc = "scored" /\ "std_score" \in DOMAIN score_input =>
          scoring.confidence
              = ConfidenceOf(CountPoints(ArticleCount(score_articles))
                                + StdPoints(score_input.std_score))
    \* the function itself, compared once, in the initial state
    /\ score_articles = <<>> /\ spc = "articles" =>
          \A sd \in StdScores, n \in {0, 9, 10, 19, 20, 1000} :
              _calculate_confidence([std_score |-> Milli(sd)], n)
                  = ConfidenceOf(CountPoints(n) + StdPoints(Milli(sd)))

\* C18 witness: 20 articles with a std_score of 0.5 earn 2 points and no
\* more: the confidence is medium.
C18_Witness ==
    /\ spc = "scored"
    /\ ArticleCount(score_articles) = 20
    /\ "std_score" \in DOMAIN score_input
    /\ score_input.std_score = Rat(1, 2)
    /\ scoring.confidence = "medium"

-----------------------------------------------------------------------------
(* Claims about whole calls *)

\* the twelve articles scored 0.4, 0.5 and 0.6 four times each
TwelveArticles == CHOOSE analyzed \in AnalyzedLists : Len(analyzed) = 12

\* the state after the twelve articles, with this published_at, were scored
\* with their own aggregate
TwelveScored(published_at) ==
    /\ spc = "scored"
    /\ score_articles = <<[count |-> 12, published_at |-> published_at]>>
    /\ score_input = get_aggregated_sentiment(TwelveArticles)

\* C19 as stated: the twelve articles, published within the last hour, score
\* sentiment 0.5, consistency about 0.834, volume 0.0, recency 0.5, an
\* overall_score of 80, STRONG BUY and high confidence.
C19_ScenarioScores80 ==
    TwelveScored([kind |-> "naive", hours |-> 1]) =>
        /\ scoring.components.sentiment = Rat(1, 2)
        /\ Between(Milli(829), scoring.components.consistency, Milli(839))
        /\ scoring.components.volume = Zero
        /\ scoring.components.recency = Rat(1, 2)
        /\ scoring.overall_score = Rat(80, 1)
        /\ scoring.recommendation = "STRONG BUY"
        /\ scoring.confidence = "high"

\* C19 as amended: the twelve articles have mean 0.5 and std about 0.082 and
\* score sentiment 0.5, consistency 0.837, volume 0.0, STRONG BUY and high
\* confidence; published within the last hour without an offset they score
\* recency 0.5 and an overall_score of 87.54, with a 'Z' recency 0.0 and 85.66.
C19_ScenarioScores87 ==
    \A published_at \in FreshTimes :
        TwelveScored(published_at) =>
            /\ score_input.mean_score = Rat(1, 2)
            /\ Between(Milli(81), score_input.std_score, Milli(82))
            /\ scoring.components.sentiment = Rat(1, 2)
            /\ scoring.components.consistency = Milli(837)
            /\ scoring.components.volume = Zero
            /\ scoring.recommendation = "STRONG BUY"
            /\ scoring.confidence = "high"
            /\ published_at.kind = "naive" =>
                  /\ scoring.components.recency = Rat(1, 2)
                  /\ scoring.overall_score = Rat(8754, 100)
            /\ published_at.kind = "aware" =>
                  /\ scoring.components.recency = Zero
                  /\ scoring.overall_score = Rat(8566, 100)

\* C19 witness: the twelve articles, an hour old without an offset, have been
\* scored.
C19_Witness ==
    /\ TwelveScored([kind |-> "naive", hours |-> 1])
    /\ score_input.article_count = 12
    /\ scoring.overall_score = Rat(8754, 100)

\* C20: no article, scored with the aggregate of no article, gives sentiment
\* 0, consistency 0, volume -1.0, recency 0.0, an overall_score of 42.5 and
\* WEAK SELL.
C20_EmptyScore ==
    /\ spc = "scored"
    /\ score_articles = <<>>
    /\ score_input = get_aggregated_sentiment(<<>>)
    => /\ scoring.components.sentiment = Zero
       /\ scoring.components.consistency = Zero
       /\ scoring.components.volume = Rat(-1, 1)
       /\ scoring.components.recency = Zero
       /\ scoring.overall_score = Rat(425, 10)
       /\ scoring.recommendation = "WEAK SELL"

\* C20 witness: no article has been scored with the aggregate of no article,
\* which has no std_score.
C20_Witness ==
    /\ spc = "scored"
    /\ score_articles = <<>>
    /\ score_input = get_aggregated_sentiment(<<>>)
    /\ "std_score" \notin DOMAIN score_input
    /\ scoring.overall_score = Rat(425, 10)

-----------------------------------------------------------------------------
(* Claims C21 to C30 *)

\* C30: a call with fewer than 10 articles never gives confidence high: it
\* gives medium exactly when std_score (1.0 when missing) is below 0.3, and
\* low otherwise.
C30_NoHighBelowTen ==
    spc = "scored" /\ ArticleCount(score_articles) < 10 =>
        /\ scoring.confidence /= "high"
        /\ scoring.confidence = "medium"
              <=> RatLess(Get(score_input, "std_score", One), Rat(3, 10))
        /\ scoring.confidence = "low"
              <=> ~RatLess(Get(score_input, "std_score", One), Rat(3, 10))

\* C30 witness: nine articles with a std of 0.299 have been scored medium.
C30_Witness ==
    /\ spc = "scored"
    /\ ArticleCount(score_articles) = 9
    /\ Get(score_input, "std_score", One) = Milli(299)
    /\ scoring.confidence = "medium"

\* C28: the recommendation of a scoring record is the tier of the
\* overall_score the record reports, which is rounded to 2 decimals: a record
\* reporting 70.0 has STRONG BUY.
C28_TierOfReportedScore ==
    spc = "scored" =>
        scoring.recommendation = _generate_recommendation(scoring.overall_score)


\* a null title or published_at read as the empty string
NullAsEmpty(articles) ==
    [i \in DOMAIN articles |->
        [articles[i] EXCEPT
            !.title = IF @ = NoneTitle THEN <<>> ELSE @,
            !.published_at = IF @ = NoneDate THEN <<>> ELSE @]]

\* C29: collect_all does not raise whatever the fetchers return: up to the
\* nulls themselves, it returns what it returns when every null title and
\* null published_at is the empty string.
C29_NullLikeEmpty ==
    cpc \in {"done", "raised"} =>
        /\ cpc = "done"
        /\ NullAsEmpty(result)
              = Limit(SortNewestFirst(Deduplicate(NullAsEmpty(all_articles))),
                      max_articles)


\* the place in the articles list of the article an entry of top_articles
\* was made from (the url of the model's articles tells it)
PlaceOf(entry) == entry.url[1]

\* the five fields of an article, with 0 and "neutral" for an article that
\* has no sentiment
Projection(article) ==
    [title |-> article.title,
     sentiment_score |->
        IF "sentiment" \in DOMAIN article THEN article.sentiment.score ELSE 0,
     sentiment_label |->
        IF "sentiment_label" \in DOMAIN article THEN article.sentiment_label
        ELSE "neutral",
     url |-> article.url,
     published_at |-> article.published_at]

\* C21: top_articles of a report has min(5, n) entries for n articles, each
\* the projection of one article; the entries are in descending order of the
\* absolute score, equal ones in the order of the list, and no omitted
\* article has a larger absolute score than a listed one.
C21_TopArticles ==
    rpc = "reported" =>
        LET top == report.top_articles
            listed == {PlaceOf(top[k]) : k \in DOMAIN top}
        IN  /\ Len(top) = Min(5, Len(analyzed_articles))
            /\ \A k \in DOMAIN top :
                  /\ PlaceOf(top[k]) \in DOMAIN analyzed_articles
                  /\ top[k] = Projection(analyzed_articles[PlaceOf(top[k])])
            /\ \A j, k \in DOMAIN top :
                  j < k =>
                     \/ Abs(top[j].sentiment_score) > Abs(top[k].sentiment_score)
                     \/ /\ Abs(top[j].sentiment_score) = Abs(top[k].sentiment_score)
                        /\ PlaceOf(top[j]) < PlaceOf(top[k])
            /\ \A i \in DOMAIN analyzed_articles \ listed :
                  \A k \in DOMAIN top :
                     Abs(ScoreOf(analyzed_articles[i])) <= Abs(top[k].sentiment_score)

\* C21 witness: of six articles five are listed; the last article of the
\* list, scored -1.0, comes first, and an article scored -0.3 is listed
\* right before a later one scored 0.3.
C21_Witness ==
    /\ rpc = "reported"
    /\ Len(analyzed_articles) = 6
    /\ Len(report.top_articles) = 5
    /\ report.top_articles[1].sentiment_score = -1000
    /\ PlaceOf(report.top_articles[1]) = 6
    /\ \E j \in 1..4 :
          /\ report.top_articles[j].sentiment_score = -300
          /\ report.top_articles[j + 1].sentiment_score = 300

\* C22: when the lookup of get_stock_info raises, the report still has its
\* seven fields, and its stock_info is the fallback: the formatted ticker as
\* ticker and company_name, and "Unknown" as sector and industry.
C22_MetadataFallback ==
    rpc = "reported" /\ calls[Len(calls)].raised =>
        /\ report.stock_info =
              [ticker |-> format_ticker(ticker), company_name |-> format_ticker(ticker),
               sector |-> "Unknown", industry |-> "Unknown"]
        /\ DOMAIN report =
              {"ticker", "analysis_date", "stock_info", "sentiment_analysis",
               "scoring", "article_count", "top_articles"}
        /\ report.ticker = ticker
        /\ report.sentiment_analysis = aggregated
        /\ report.scoring = scoring
        /\ report.article_count = Len(analyzed_articles)
        /\ Len(report.top_articles) = Min(5, report.article_count)

\* C22 witness: a report on three articles for the ticker "ab" has been
\* generated while the lookup raised.
C22_Witness ==
    /\ rpc = "reported"
    /\ calls = <<Call("stock.info", TRUE)>>
    /\ ticker = <<"a", "b">>
    /\ report.stock_info.ticker = <<"A", "B">>
    /\ report.stock_info.sector = "Unknown"
    /\ report.article_count = 3


\* the calls of one name logged in the request
Named(name) == SelectSeq(calls, LAMBDA c : c.name = name)

RECURSIVE KeptFrom(_)
\* the titles of the collected articles from place i on whose classification
\* did not fail, in the order of the list
KeptFrom(i) ==
    IF i > Len(ClassifierCalls) THEN <<>>
    ELSE (IF ClassifierCalls[i].raised THEN <<>> ELSE <<result[i].title>>)
            \o KeptFrom(i + 1)

\* C23: an article whose classification failed is skipped: the analyzed set
\* holds exactly the articles classified without failure, in their order,
\* and the article_count of the aggregate and of the report count only them.
C23_FailedExcluded ==
    /\ [i \in DOMAIN analyzed_articles |-> analyzed_articles[i].title] = KeptFrom(1)
    /\ aggregated /= <<>> => aggregated.article_count = Len(KeptFrom(1))
    /\ report /= <<>> => report.article_count = Len(KeptFrom(1))

\* a letter of the model's tickers
Letters == {"a", "b", "A", "B"}

\* empty, longer than 5 characters, or containing a non-letter
Malformed(t) == t = <<>> \/ Len(t) > 5 \/ \E i \in DOMAIN t : t[i] \notin Letters

\* the request ended in a validation error (HTTP 400, exit 1) and nothing
\* but validate_ticker was called: no lookup, no collector, no classifier, no
\* scorer
RejectedUnseen ==
    /\ rpc = "done"
    /\ outcome.kind = "validation error"
    /\ outcome.code = IF request.frontend = "api" THEN 400 ELSE 1
    /\ calls = <<Call("validate_ticker", FALSE)>>
    /\ cpc = "idle" /\ result = <<>>
    /\ analyzed_articles = <<>> /\ aggregated = <<>>
    /\ scoring = <<>> /\ report = <<>>

\* C24 as stated: a request whose ticker argument is empty, longer than 5
\* characters or holds a non-letter is rejected before any lookup and ends
\* in a validation error without any collector, classifier or scorer call.
C24_MalformedRejected ==
    rpc /= "validate" /\ Malformed(request.ticker) => RejectedUnseen

\* C24 as amended: a request whose ticker, after upper-casing and stripping
\* the surrounding whitespace, is empty, longer than 5 characters or holds a
\* non-letter is rejected before any lookup and ends in a validation error
\* without any collector, classifier or scorer call.
C24_MalformedAfterFormatRejected ==
    rpc /= "validate" /\ Malformed(Strip(Upper(request.ticker))) => RejectedUnseen

\* C24 witness: the API has answered 400 to the ticker "A1" after the single
\* call of validate_ticker.
C24_Witness ==
    /\ rpc = "done"
    /\ request.frontend = "api"
    /\ request.ticker = <<"A", "1">>
    /\ outcome.code = 400
    /\ calls = <<Call("validate_ticker", FALSE)>>

\* collect_all returned no article
NoArticles == Named("collect_all") = <<Call("collect_all", FALSE)>> /\ result = <<>>

\* no classification, no aggregate, no scoring and no report was produced
NothingProduced ==
    /\ Named("classifier") = <<>>
    /\ analyzed_articles = <<>> /\ aggregated = <<>>
    /\ scoring = <<>> /\ report = <<>>

\* C25 as stated: when collect_all returns no article the request ends as
\* not found, with a status or exit code that differs from the one of an
\* internal error, and nothing is classified, scored or reported.
C25_NotFoundDistinctCode ==
    NoArticles =>
        /\ rpc = "done"
        /\ outcome.kind = "not found"
        /\ outcome.code /= internal_error(request.frontend).code
        /\ NothingProduced

\* C25 as amended: when collect_all returns no article the request ends as
\* not found and nothing is classified, scored or reported; the API answers
\* 404, not the 500 of an internal error, and the CLI exits with 1, as it
\* does for an internal error.
C25_NotFound ==
    NoArticles =>
        /\ rpc = "done"
        /\ outcome.kind = "not found"
        /\ request.frontend = "api" =>
              outcome.code = 404 /\ internal_error("api").code = 500
        /\ request.frontend = "cli" =>
              outcome.code = 1 /\ internal_error("cli").code = 1
        /\ NothingProduced

\* C25 witness: all three providers failed and the CLI has exited with 1.
C25_Witness ==
    /\ NoArticles
    /\ \A f \in {"collect_news_api", "collect_finnhub", "collect_yfinance_news"} :
          Named(f) = <<Call(f, TRUE)>>
    /\ request.frontend = "cli"
    /\ outcome = [kind |-> "not found", code |-> 1]

\* the configuration 0.70, 0.15, 0.10, 0.05
FixedWeights ==
    [sentiment_score |-> Rat(70, 100), sentiment_consistency |-> Rat(15, 100),
     news_volume |-> Rat(10, 100), recency |-> Rat(5, 100)]

\* C26: the weights of the shared scorer are 0.70, 0.15, 0.10 and 0.05, which
\* add up to 1, whatever calls have been made, and every scoring record, the
\* one in a report too, holds exactly these weights.
C26_WeightsFixed ==
    /\ weights = FixedWeights
    /\ RatAdd(RatAdd(weights.sentiment_score, weights.sentiment_consistency),
              RatAdd(weights.news_volume, weights.recency)) = One
    /\ scoring /= <<>> => scoring.weights = FixedWeights
    /\ report /= <<>> => report.scoring.weights = FixedWeights

\* C26 witness: the second request served by the scorer has been scored and
\* reported.
C26_Witness ==
    /\ request.number = 2
    /\ Named("calculate_score") /= <<>>
    /\ report /= <<>>
    /\ report.scoring.weights = FixedWeights
    /\ weights = FixedWeights

\* the stages in the order of the request
Stages ==
    <<"validate_ticker", "collect_all", "analyze_articles",
      "get_aggregated_sentiment", "calculate_score", "generate_report">>

\* the calls of the stages logged in the request
StageCalls == SelectSeq(calls, LAMBDA c : c.name \in Range(Stages))

\* C27: the stages are called in the order validate, collect, classify,
\* aggregate, score, report, none twice; each fetcher is called at most once
\* and exactly once when collect_all returns; the classifier is called at
\* most once per collected article; a stage that raises is the last one
\* called and the request ends as an internal error, HTTP 500 or exit 1.
C27_StagesInOrder ==
    /\ Len(StageCalls) <= Len(Stages)
    /\ \A i \in DOMAIN StageCalls : StageCalls[i].name = Stages[i]
    /\ \A f \in {"collect_news_api", "collect_finnhub", "collect_yfinance_news"} :
          /\ Len(Named(f)) <= 1
          /\ Call("collect_all", FALSE) \in Range(calls) => Len(Named(f)) = 1
    /\ Len(Named("classifier")) <= Len(result)
    /\ Named("analyze_articles") = <<Call("analyze_articles", FALSE)>>
          => Len(Named("classifier")) = Len(result)
    /\ \A i \in DOMAIN StageCalls :
          StageCalls[i].raised =>
             /\ i = Len(StageCalls)
             /\ rpc = "done"
             /\ outcome.kind = "internal error"
             /\ outcome.code = IF request.frontend = "api" THEN 500 ELSE 1
             /\ report = <<>>

\* C27 witness: calculate_score raised after three articles were collected
\* and classified, and the API has answered 500.
C27_Witness ==
    /\ rpc = "done"
    /\ request.frontend = "api"
    /\ Len(result) = 3
    /\ Len(Named("classifier")) = 3
    /\ Len(StageCalls) = 5
    /\ StageCalls[5] = Call("calculate_score", TRUE)
    /\ outcome = [kind |-> "internal error", code |-> 500]

=============================================================================
